---- MODULE Spec2Model ----
(***************************************************************************)
(* The regex -> minimized DFA compiler (regex2mindfa_compiler.c) as a      *)
(* state machine: one run of main() from its command line to its exit.     *)
(* Bytes are naturals 1..255; a C string is the sequence of its bytes.     *)
(* State ids, block ids and symbol indexes are 0-based as in the source;   *)
(* the sequence that holds them is 1-based, so X[i + 1] is the C X[i].     *)
(***************************************************************************)
EXTENDS Integers, Sequences, FiniteSets, TLC

(* ------------------------------------------------------------------ *)
(* Program constants                                                   *)
(* ------------------------------------------------------------------ *)
EPS_TOK == 1
MAX_NFA_STATES == 4096
MAX_DFA_STATES == 4096
MAX_ALPHABET == 128

(* ------------------------------------------------------------------ *)
(* Bounds of the model                                                 *)
(* ------------------------------------------------------------------ *)
\* Pieces (a symbol, an operator, one epsilon encoding) in an enumerated pattern.
MaxPat == 4
\* Length of the candidate strings a DFA is run on.
MaxW == 4
\* Bytes in an enumerated alphabet line.
MaxAlphaLen == 3
\* Pieces in an enumerated pattern of the lexer's specification.
MaxLexLen == 3

\* test lines in a tests file of the comparator
MaxTests == 3

\* Pieces in an enumerated pattern of the run-to-completion specification.
MaxLivePat == 2

\* the longest user file of the converter, in lines
MaxSpecLines == 3

(* ------------------------------------------------------------------ *)
(* Generic helpers                                                     *)
(* ------------------------------------------------------------------ *)
SeqsUpTo(S, n) == UNION {[1..m -> S] : m \in 0..n}

RECURSIVE Flatten(_)
Flatten(ss) == IF ss = <<>> THEN <<>> ELSE Head(ss) \o Flatten(Tail(ss))

Range(lo, hi) == [i \in 1..(hi - lo + 1) |-> lo + i - 1]

Front(s) == SubSeq(s, 1, Len(s) - 1)

Last(s) == s[Len(s)]

(* ------------------------------------------------------------------ *)
(* Character classes                                                   *)
(* ------------------------------------------------------------------ *)
\* isspace() of the C locale: \t \n \v \f \r and the space.
isspace(c) == c \in {9, 10, 11, 12, 13, 32}

\* | + * ( ) .
\* is_meta without the '.'
is_meta_no_dot(c) == c \in {124, 43, 42, 40, 41}

is_meta(c) == c \in {124, 43, 42, 40, 41, 46}

is_alphabet_symbol(ALPH, c) == \E i \in 1..Len(ALPH) : ALPH[i] = c

(* ------------------------------------------------------------------ *)
(* parse_alphabet_line: the first offending byte ends the run          *)
(* ------------------------------------------------------------------ *)
\* alphabet_byte without the test of ALPHABET_SIZE
alphabet_byte_no_limit(alpha, c) ==
    CASE c = 10 \/ c = 13 -> "skip"
      [] isspace(c) \/ c = 44 \/ c = 59 -> "skip"
      [] c = EPS_TOK -> "alphabet must not contain internal epsilon token"
      [] is_meta(c) -> "alphabet contains meta-operator"
      [] c < 32 -> "alphabet contains non-printable byte"
      [] is_alphabet_symbol(alpha, c) -> "alphabet contains duplicate symbol"
      [] OTHER -> ""

\* the body of the loop on byte c: "skip" (continue), "" (c is stored), or the
\* message of the die() it reaches
alphabet_byte(alpha, c) ==
    CASE c = 10 \/ c = 13 -> "skip"
      [] isspace(c) \/ c = 44 \/ c = 59 -> "skip"
      [] c = EPS_TOK -> "alphabet must not contain internal epsilon token"
      [] is_meta(c) -> "alphabet contains meta-operator"
      [] c < 32 -> "alphabet contains non-printable byte"
      [] is_alphabet_symbol(alpha, c) -> "alphabet contains duplicate symbol"
      [] Len(alpha) >= MAX_ALPHABET -> "alphabet too large"
      [] OTHER -> ""

\* the loop body on the bytes lo..hi of the line, in line order; st is
\* [err, alpha] so far and the first die() ends the run. The range is walked
\* by halves, which keeps the evaluation shallow on a line of 130 bytes.
RECURSIVE parse_alphabet_range(_, _, _, _)
parse_alphabet_range(line, lo, hi, st) ==
    IF st.err /= "" \/ lo > hi THEN st
    ELSE IF lo = hi
    THEN IF alphabet_byte(st.alpha, line[lo]) = "skip" THEN st
         ELSE IF alphabet_byte(st.alpha, line[lo]) = ""
              THEN [err |-> "", alpha |-> Append(st.alpha, line[lo])]
         ELSE [err |-> alphabet_byte(st.alpha, line[lo]), alpha |-> st.alpha]
    ELSE LET mid == (lo + hi) \div 2
             left == parse_alphabet_range(line, lo, mid, st)
         IN parse_alphabet_range(line, mid + 1, hi, left)

\* the loop from byte i on, then the test for an empty alphabet
parse_alphabet_loop(line, i, alpha) ==
    LET r == parse_alphabet_range(line, i, Len(line), [err |-> "", alpha |-> alpha])
    IN IF r.err = "" /\ Len(r.alpha) = 0
       THEN [err |-> "alphabet is empty", alpha |-> r.alpha]
       ELSE r

parse_alphabet_line(line) == parse_alphabet_loop(line, 1, <<>>)

(* ------------------------------------------------------------------ *)
(* preprocess_regex: <eps> and 0xCE 0xB5 -> EPS_TOK, whitespace dropped *)
(* ------------------------------------------------------------------ *)
EpsAscii == <<60, 101, 112, 115, 62>>

RECURSIVE preprocess_loop(_, _, _)
preprocess_loop(line, i, out) ==
    IF i > Len(line) THEN out
    ELSE LET b == line[i] IN
         IF b = 13 \/ b = 10 THEN preprocess_loop(line, i + 1, out)
         ELSE IF isspace(b) THEN preprocess_loop(line, i + 1, out)
         ELSE IF b = 60 /\ i + 4 <= Len(line) /\ SubSeq(line, i, i + 4) = EpsAscii
              THEN preprocess_loop(line, i + 5, Append(out, EPS_TOK))
         ELSE IF i + 1 <= Len(line) /\ b = 206 /\ line[i + 1] = 181
              THEN preprocess_loop(line, i + 2, Append(out, EPS_TOK))
         ELSE preprocess_loop(line, i + 1, Append(out, b))

preprocess_regex(line) == preprocess_loop(line, 1, <<>>)

(* ------------------------------------------------------------------ *)
(* check_parentheses_balanced / check_regex_symbols_valid              *)
(* ------------------------------------------------------------------ *)
RECURSIVE parens_loop(_, _, _)
parens_loop(s, i, bal) ==
    IF i > Len(s)
    THEN IF bal /= 0 THEN "mismatched parentheses: unclosed '('" ELSE ""
    ELSE LET b2 == IF s[i] = 40 THEN bal + 1 ELSE IF s[i] = 41 THEN bal - 1 ELSE bal IN
         IF b2 < 0 THEN "mismatched parentheses: extra ')'"
         ELSE parens_loop(s, i + 1, b2)

check_parentheses_balanced(s) == parens_loop(s, 1, 0)

RECURSIVE symbols_loop(_, _, _)
symbols_loop(ALPH, s, i) ==
    IF i > Len(s) THEN ""
    ELSE LET c == s[i] IN
         IF c = EPS_TOK THEN symbols_loop(ALPH, s, i + 1)
         ELSE IF is_alphabet_symbol(ALPH, c) THEN symbols_loop(ALPH, s, i + 1)
         ELSE IF c \in {124, 43, 42, 40, 41} THEN symbols_loop(ALPH, s, i + 1)
         ELSE IF c = 46 THEN "regex must not contain explicit '.'"
         ELSE IF c >= 128 THEN "regex contains non-ASCII byte"
         ELSE "regex contains invalid character"

\* the loop with the non-ASCII test moved ahead of the alphabet test
RECURSIVE symbols_loop_ascii_first(_, _, _)
symbols_loop_ascii_first(ALPH, s, i) ==
    IF i > Len(s) THEN ""
    ELSE LET c == s[i] IN
         IF c = EPS_TOK THEN symbols_loop_ascii_first(ALPH, s, i + 1)
         ELSE IF c >= 128 THEN "regex contains non-ASCII byte"
         ELSE IF is_alphabet_symbol(ALPH, c) THEN symbols_loop_ascii_first(ALPH, s, i + 1)
         ELSE IF c \in {124, 43, 42, 40, 41} THEN symbols_loop_ascii_first(ALPH, s, i + 1)
         ELSE IF c = 46 THEN "regex must not contain explicit '.'"
         ELSE "regex contains invalid character"

check_symbols_ascii_first(ALPH, s) == symbols_loop_ascii_first(ALPH, s, 1)

check_regex_symbols_valid(ALPH, s) == symbols_loop(ALPH, s, 1)

(* ------------------------------------------------------------------ *)
(* add_concat_ops: the explicit concatenation marker '.'               *)
(* ------------------------------------------------------------------ *)
is_atom_end(ALPH, c) == is_alphabet_symbol(ALPH, c) \/ c = EPS_TOK \/ c = 41 \/ c = 42

is_atom_start(ALPH, c) == is_alphabet_symbol(ALPH, c) \/ c = EPS_TOK \/ c = 40

\* need_concat that takes only an alphabet symbol for the start of an atom
need_concat_symbol_only(ALPH, x, y) == is_atom_end(ALPH, x) /\ is_alphabet_symbol(ALPH, y)

need_concat(ALPH, x, y) == is_atom_end(ALPH, x) /\ is_atom_start(ALPH, y)

RECURSIVE add_concat_loop(_, _, _, _)
add_concat_loop(ALPH, in, i, out) ==
    IF i > Len(in) THEN out
    ELSE LET o1 == Append(out, in[i]) IN
         IF i + 1 <= Len(in) /\ need_concat(ALPH, in[i], in[i + 1])
         THEN add_concat_loop(ALPH, in, i + 1, Append(o1, 46))
         ELSE add_concat_loop(ALPH, in, i + 1, o1)

add_concat_ops(ALPH, in) == add_concat_loop(ALPH, in, 1, <<>>)

(* ------------------------------------------------------------------ *)
(* to_postfix: shunting-yard                                           *)
(* ------------------------------------------------------------------ *)
prec(op) == IF op = 42 THEN 3 ELSE IF op = 46 THEN 2 ELSE IF op = 124 \/ op = 43 THEN 1 ELSE 0

is_left_assoc(op) == op /= 42

\* while(top>=0 && st[top]!='(') out[j++]=st[top--];
RECURSIVE pop_to_paren(_, _)
pop_to_paren(out, st) ==
    IF st /= <<>> /\ Last(st) /= 40
    THEN pop_to_paren(Append(out, Last(st)), Front(st))
    ELSE [out |-> out, st |-> st]

\* the while(top>=0) loop of a binary operator c
RECURSIVE pop_ops(_, _, _)
pop_ops(c, out, st) ==
    IF st = <<>> THEN [out |-> out, st |-> st]
    ELSE LET o2 == Last(st) IN
         IF o2 = 40 THEN [out |-> out, st |-> st]
         ELSE IF (is_left_assoc(c) /\ prec(c) <= prec(o2)) \/ (~is_left_assoc(c) /\ prec(c) < prec(o2))
              THEN pop_ops(c, Append(out, o2), Front(st))
              ELSE [out |-> out, st |-> st]

\* the final while(top>=0) loop
RECURSIVE drain_ops(_, _)
drain_ops(out, st) ==
    IF st = <<>> THEN [err |-> "", out |-> out]
    ELSE IF Last(st) = 40 THEN [err |-> "mismatched parentheses", out |-> out]
    ELSE drain_ops(Append(out, Last(st)), Front(st))

RECURSIVE to_postfix_loop(_, _, _, _, _)
to_postfix_loop(ALPH, regex, i, out, st) ==
    IF i > Len(regex) THEN drain_ops(out, st)
    ELSE LET c == regex[i] IN
         IF is_alphabet_symbol(ALPH, c) \/ c = EPS_TOK
         THEN to_postfix_loop(ALPH, regex, i + 1, Append(out, c), st)
         ELSE IF c = 40
         THEN to_postfix_loop(ALPH, regex, i + 1, out, Append(st, c))
         ELSE IF c = 41
         THEN LET r == pop_to_paren(out, st) IN
              IF r.st = <<>> THEN [err |-> "mismatched parentheses", out |-> r.out]
              ELSE to_postfix_loop(ALPH, regex, i + 1, r.out, Front(r.st))
         ELSE IF c = 42
         THEN to_postfix_loop(ALPH, regex, i + 1, Append(out, c), st)
         ELSE IF c = 124 \/ c = 43 \/ c = 46
         THEN LET r == pop_ops(c, out, st) IN
              to_postfix_loop(ALPH, regex, i + 1, r.out, Append(r.st, c))
         ELSE [err |-> "unknown character during postfix conversion", out |-> out]

to_postfix(ALPH, regex) == to_postfix_loop(ALPH, regex, 1, <<>>, <<>>)

(* ------------------------------------------------------------------ *)
(* Thompson construction. nfa[s + 1] is the edge list of state s; an    *)
(* edge is [to, sym] with sym = 0 for epsilon.                          *)
(* ------------------------------------------------------------------ *)
add_edge(nfa, from, to, sym) == [nfa EXCEPT ![from + 1] = Append(@, [to |-> to, sym |-> sym])]

\* two calls of new_nfa_state: the ids of the new pair, or the fatal error
new_nfa_pair(nfa) ==
    IF Len(nfa) >= MAX_NFA_STATES \/ Len(nfa) + 1 >= MAX_NFA_STATES
    THEN [err |-> "too many NFA states", nfa |-> nfa, s |-> -1, t |-> -1]
    ELSE [err |-> "", nfa |-> nfa \o << <<>>, <<>> >>, s |-> Len(nfa), t |-> Len(nfa) + 1]

Underflow == "invalid postfix (stack underflow)"

NotSingleton == "invalid postfix (stack not singleton)"

\* one iteration of the loop of postfix_to_nfa on token c
postfix_step(ALPH, c, nfa, st) ==
    IF is_alphabet_symbol(ALPH, c) \/ c = EPS_TOK
    THEN LET p == new_nfa_pair(nfa) IN
         IF p.err /= "" THEN [err |-> p.err, nfa |-> nfa, st |-> st]
         ELSE [err |-> "",
               nfa |-> add_edge(p.nfa, p.s, p.t, IF c = EPS_TOK THEN 0 ELSE c),
               st |-> Append(st, [start |-> p.s, accept |-> p.t])]
    ELSE IF c = 46
    THEN IF Len(st) < 2 THEN [err |-> Underflow, nfa |-> nfa, st |-> st]
         ELSE LET f2 == st[Len(st)]
                  f1 == st[Len(st) - 1] IN
              [err |-> "",
               nfa |-> add_edge(nfa, f1.accept, f2.start, 0),
               st |-> Append(SubSeq(st, 1, Len(st) - 2), [start |-> f1.start, accept |-> f2.accept])]
    ELSE IF c = 124 \/ c = 43
    THEN IF Len(st) < 2 THEN [err |-> Underflow, nfa |-> nfa, st |-> st]
         ELSE LET f2 == st[Len(st)]
                  f1 == st[Len(st) - 1]
                  p == new_nfa_pair(nfa) IN
              IF p.err /= "" THEN [err |-> p.err, nfa |-> nfa, st |-> st]
              ELSE [err |-> "",
                    nfa |-> add_edge(add_edge(add_edge(add_edge(p.nfa,
                                p.s, f1.start, 0), p.s, f2.start, 0),
                                f1.accept, p.t, 0), f2.accept, p.t, 0),
                    st |-> Append(SubSeq(st, 1, Len(st) - 2), [start |-> p.s, accept |-> p.t])]
    ELSE IF c = 42
    THEN IF Len(st) < 1 THEN [err |-> Underflow, nfa |-> nfa, st |-> st]
         ELSE LET f == st[Len(st)]
                  p == new_nfa_pair(nfa) IN
              IF p.err /= "" THEN [err |-> p.err, nfa |-> nfa, st |-> st]
              ELSE [err |-> "",
                    nfa |-> add_edge(add_edge(add_edge(add_edge(p.nfa,
                                p.s, f.start, 0), p.s, p.t, 0),
                                f.accept, f.start, 0), f.accept, p.t, 0),
                    st |-> Append(Front(st), [start |-> p.s, accept |-> p.t])]
    ELSE [err |-> "invalid postfix token", nfa |-> nfa, st |-> st]

RECURSIVE postfix_loop(_, _, _, _, _)
postfix_loop(ALPH, pst, i, nfa, st) ==
    IF i > Len(pst)
    THEN IF Len(st) /= 1
         THEN [err |-> NotSingleton, nfa |-> nfa, st |-> st]
         ELSE [err |-> "", nfa |-> nfa, st |-> st]
    ELSE LET r == postfix_step(ALPH, pst[i], nfa, st) IN
         IF r.err /= "" THEN r
         ELSE postfix_loop(ALPH, pst, i + 1, r.nfa, r.st)

postfix_to_nfa(ALPH, pst) == postfix_loop(ALPH, pst, 1, <<>>, <<>>)

(* ------------------------------------------------------------------ *)
(* eps_closure / move_on_symbol. A bitset is the set of its members.    *)
(* ------------------------------------------------------------------ *)
\* the queue seeded with the members of a set in increasing order
RECURSIVE AscendingSeq(_)
AscendingSeq(S) ==
    IF S = {} THEN <<>>
    ELSE LET m == CHOOSE x \in S : \A y \in S : x <= y IN <<m>> \o AscendingSeq(S \ {m})

\* the edge loop of one dequeued state
RECURSIVE closure_edges(_, _, _, _)
closure_edges(edges, ei, out, q) ==
    IF ei > Len(edges) THEN [out |-> out, q |-> q]
    ELSE LET e == edges[ei] IN
         IF e.sym = 0 /\ e.to \notin out
         THEN closure_edges(edges, ei + 1, out \cup {e.to}, Append(q, e.to))
         ELSE closure_edges(edges, ei + 1, out, q)

RECURSIVE closure_loop(_, _, _, _)
closure_loop(nfa, q, qh, out) ==
    IF qh > Len(q) THEN [out |-> out, q |-> q]
    ELSE LET r == closure_edges(nfa[q[qh] + 1], 1, out, q) IN
         closure_loop(nfa, r.q, qh + 1, r.out)

eps_closure_run(nfa, in) == closure_loop(nfa, AscendingSeq(in), 1, in)

\* eps_closure that follows no edge
eps_closure_seed(nfa, in) == in

eps_closure(nfa, in) == eps_closure_run(nfa, in).out

move_on_symbol(nfa, in, sym) ==
    UNION {{nfa[s + 1][ei].to : ei \in {j \in 1..Len(nfa[s + 1]) : nfa[s + 1][j].sym = sym}} : s \in in}

(* ------------------------------------------------------------------ *)
(* Subset construction. dfa[d + 1] = [set, is_accept, trans]; a cell of *)
(* trans is a state id or -1 (missing).                                 *)
(* ------------------------------------------------------------------ *)
find_dfa_state(dfa, s) ==
    IF \E i \in 1..Len(dfa) : dfa[i].set = s
    THEN (CHOOSE i \in 1..Len(dfa) : dfa[i].set = s /\ \A j \in 1..(i - 1) : dfa[j].set /= s) - 1
    ELSE -1

\* the state dfa_add_state stores at index dfa_n
new_dfa_state(ALPH, s, nfa_accept) ==
    [set |-> s, is_accept |-> (nfa_accept \in s), trans |-> [i \in 1..Len(ALPH) |-> -1]]

set_trans(dfa, id, ai, t) == [dfa EXCEPT ![id + 1].trans[ai] = t]

\* the while(qh<qt) loop; ai is the 1-based position of the symbol in ALPHABET
RECURSIVE subset_loop(_, _, _, _, _, _, _)
subset_loop(ALPH, nfa, nfa_accept, dfa, q, qh, ai) ==
    IF qh > Len(q) THEN [err |-> "", dfa |-> dfa, q |-> q]
    ELSE IF ai > Len(ALPH) THEN subset_loop(ALPH, nfa, nfa_accept, dfa, q, qh + 1, 1)
    ELSE LET id == q[qh]
             mv == move_on_symbol(nfa, dfa[id + 1].set, ALPH[ai]) IN
         IF mv = {}
         THEN subset_loop(ALPH, nfa, nfa_accept, set_trans(dfa, id, ai, -1), q, qh, ai + 1)
         ELSE LET cl == eps_closure(nfa, mv)
                  ex == find_dfa_state(dfa, cl) IN
              IF ex < 0
              THEN IF Len(dfa) >= MAX_DFA_STATES
                   THEN [err |-> "too many DFA states", dfa |-> dfa, q |-> q]
                   ELSE subset_loop(ALPH, nfa, nfa_accept,
                            set_trans(Append(dfa, new_dfa_state(ALPH, cl, nfa_accept)), id, ai, Len(dfa)),
                            Append(q, Len(dfa)), qh, ai + 1)
              ELSE subset_loop(ALPH, nfa, nfa_accept, set_trans(dfa, id, ai, ex), q, qh, ai + 1)

\* one pass of the for(ai) body, lines 404-416, on cell (id, ai) of the table
subset_cell(ALPH, nfa, nfa_accept, dfa, q, id, ai) ==
    LET mv == move_on_symbol(nfa, dfa[id + 1].set, ALPH[ai]) IN
    IF mv = {}
    THEN [err |-> "", dfa |-> set_trans(dfa, id, ai, -1), q |-> q]
    ELSE LET cl == eps_closure(nfa, mv)
             ex == find_dfa_state(dfa, cl) IN
         IF ex < 0
         THEN IF Len(dfa) >= MAX_DFA_STATES
              THEN [err |-> "too many DFA states", dfa |-> dfa, q |-> q]
              ELSE [err |-> "",
                    dfa |-> set_trans(Append(dfa, new_dfa_state(ALPH, cl, nfa_accept)), id, ai, Len(dfa)),
                    q |-> Append(q, Len(dfa))]
         ELSE [err |-> "", dfa |-> set_trans(dfa, id, ai, ex), q |-> q]

nfa_to_dfa(ALPH, nfa, nfa_start, nfa_accept) ==
    subset_loop(ALPH, nfa, nfa_accept,
                <<new_dfa_state(ALPH, eps_closure(nfa, {nfa_start}), nfa_accept)>>, <<0>>, 1, 1)

(* ------------------------------------------------------------------ *)
(* dfa_minimize: completion with the dead state                         *)
(* ------------------------------------------------------------------ *)
calc_need_dead(dfa) == \E s \in 1..Len(dfa) : \E x \in 1..Len(dfa[s].trans) : dfa[s].trans[x] = -1

calc_N(dfa) == Len(dfa) + (IF calc_need_dead(dfa) THEN 1 ELSE 0)

calc_dead(dfa) == IF calc_need_dead(dfa) THEN calc_N(dfa) - 1 ELSE -1

\* T[s + 1][x] is the C T[s*ALPHABET_SIZE + (x - 1)]
complete_T(ALPH, dfa) ==
    [s \in 1..calc_N(dfa) |->
        [x \in 1..Len(ALPH) |->
            IF s <= Len(dfa)
            THEN (IF dfa[s].trans[x] = -1 THEN calc_dead(dfa) ELSE dfa[s].trans[x])
            ELSE calc_dead(dfa)]]

\* complete_A with the dead state flagged accepting
complete_A_dead_accepting(dfa) ==
    [s \in 1..calc_N(dfa) |-> IF s <= Len(dfa) THEN dfa[s].is_accept ELSE TRUE]

complete_A(dfa) ==
    [s \in 1..calc_N(dfa) |-> IF s <= Len(dfa) THEN dfa[s].is_accept ELSE FALSE]

\* the states s in 0..N-1, in increasing order, that satisfy the flag
RECURSIVE states_where(_, _, _)
states_where(Aflags, s, want) ==
    IF s > Len(Aflags) THEN <<>>
    ELSE (IF Aflags[s] = want THEN <<s - 1>> ELSE <<>>) \o states_where(Aflags, s + 1, want)

initial_P(Aflags) == <<states_where(Aflags, 1, TRUE), states_where(Aflags, 1, FALSE)>>

\* cls[s + 1] = index of the block that lists s
cls_of(Pp, n) == [s \in 1..n |-> (CHOOSE i \in 1..Len(Pp) : \E k \in 1..Len(Pp[i]) : Pp[i][k] = s - 1) - 1]

\* initial_W with its branches swapped: the larger block is pushed
initial_W_larger(Pp) == IF Len(Pp[1]) <= Len(Pp[2]) THEN <<1>> ELSE <<0>>

initial_W(Pp) == IF Len(Pp[1]) <= Len(Pp[2]) THEN <<0>> ELSE <<1>>

\* mark[] after the idx loop: the states with an x-transition into block Ablock
calc_mark(Tt, Pp, blk, x) ==
    {p \in 0..(Len(Tt) - 1) : \E idx \in 1..Len(Pp[blk + 1]) : Tt[p + 1][x] = Pp[blk + 1][idx]}

block_cnt(Pp, mk, y) == Cardinality({k \in 1..Len(Pp[y + 1]) : Pp[y + 1][k] \in mk})

splits(Pp, mk, y) == block_cnt(Pp, mk, y) /= 0 /\ block_cnt(Pp, mk, y) /= Len(Pp[y + 1])

RECURSIVE filter_block(_, _, _, _)
filter_block(blk, k, mk, want) ==
    IF k > Len(blk) THEN <<>>
    ELSE (IF (blk[k] \in mk) = want THEN <<blk[k]>> ELSE <<>>) \o filter_block(blk, k + 1, mk, want)

\* P after block y is replaced by Y1 and Y2 is appended
split_P(Pp, mk, y) ==
    Append([Pp EXCEPT ![y + 1] = filter_block(Pp[y + 1], 1, mk, TRUE)],
           filter_block(Pp[y + 1], 1, mk, FALSE))

\* cls left as it was before the split
split_cls_stale(cl, Pp2, y) == cl

\* cls after the two update loops
split_cls(cl, Pp2, y) ==
    [s \in 1..Len(cl) |->
        IF \E k \in 1..Len(Pp2[y + 1]) : Pp2[y + 1][k] = s - 1 THEN y
        ELSE IF \E k \in 1..Len(Pp2[Len(Pp2)]) : Pp2[Len(Pp2)][k] = s - 1 THEN Len(Pp2) - 1
        ELSE cl[s]]

\* split_W with the new id pushed when the two halves have the same size
split_W_tie_new(Ww, Pp2, y) ==
    LET newi == Len(Pp2) - 1 IN
    IF \E w \in 1..Len(Ww) : Ww[w] = y
    THEN Append(Ww, newi)
    ELSE IF Len(Pp2[y + 1]) < Len(Pp2[newi + 1]) THEN Append(Ww, y) ELSE Append(Ww, newi)

\* W after the split of block y into P[y] and P[newi]
split_W(Ww, Pp2, y) ==
    LET newi == Len(Pp2) - 1 IN
    IF \E w \in 1..Len(Ww) : Ww[w] = y
    THEN Append(Ww, newi)
    ELSE IF Len(Pp2[y + 1]) <= Len(Pp2[newi + 1]) THEN Append(Ww, y) ELSE Append(Ww, newi)

(* ------------------------------------------------------------------ *)
(* dfa_minimize as a function of the subset-construction result: the     *)
(* loops of lines 500-544 run to their end. st = [P, cls, W].            *)
(* ------------------------------------------------------------------ *)
\* for(yi=0; yi<Pn; yi++), Pn re-read after every split
RECURSIVE hop_blocks(_, _, _)
hop_blocks(st, mk, y) ==
    IF y >= Len(st.P) THEN st
    ELSE IF splits(st.P, mk, y)
    THEN LET P2 == split_P(st.P, mk, y) IN
         hop_blocks([P |-> P2, cls |-> split_cls(st.cls, P2, y), W |-> split_W(st.W, P2, y)],
                    mk, y + 1)
    ELSE hop_blocks(st, mk, y + 1)

\* for(a=0; a<ALPHABET_SIZE; a++), x = a + 1; mark is rebuilt from P[Ablock]
RECURSIVE hop_symbols(_, _, _, _)
hop_symbols(Tt, st, blk, x) ==
    IF x > Len(Tt[1]) THEN st
    ELSE hop_symbols(Tt, hop_blocks(st, calc_mark(Tt, st.P, blk, x), 0), blk, x + 1)

\* while(W.n>0){ Ablock=W.a[--W.n]; ... }
RECURSIVE hop_while(_, _)
hop_while(Tt, st) ==
    IF Len(st.W) = 0 THEN st
    ELSE hop_while(Tt, hop_symbols(Tt, [st EXCEPT !.W = Front(st.W)], Last(st.W), 1))

\* dfa_minimize: the class map and the class count it returns
dfa_minimize(ALPH, dfa) ==
    LET Tt == complete_T(ALPH, dfa)
        Aa == complete_A(dfa)
        nF == Cardinality({s \in 1..Len(Aa) : Aa[s]})
        nNF == Cardinality({s \in 1..Len(Aa) : ~Aa[s]}) IN
    IF nF = 0 \/ nNF = 0
    THEN [cls |-> [s \in 1..Len(Aa) |-> 0], min_n |-> 1, P |-> <<>>]
    ELSE LET P0 == initial_P(Aa)
             r == hop_while(Tt, [P |-> P0, cls |-> cls_of(P0, Len(Aa)), W |-> initial_W(P0)]) IN
         [cls |-> r.cls, min_n |-> Len(r.P), P |-> r.P]

(* ------------------------------------------------------------------ *)
(* write_min_dfa: the table as a record of its lines                    *)
(* ------------------------------------------------------------------ *)
calc_rep(cl, c) ==
    IF \E s \in 1..Len(cl) : cl[s] = c
    THEN (CHOOSE s \in 1..Len(cl) : cl[s] = c /\ \A r \in 1..(s - 1) : cl[r] /= c) - 1
    ELSE -1

\* acc[] indexed by the state instead of its class
calc_acc_by_state(Aflags, cl, c) == c + 1 <= Len(Aflags) /\ Aflags[c + 1]

calc_acc(Aflags, cl, c) == \E s \in 1..Len(cl) : Aflags[s] /\ cl[s] = c

RECURSIVE accept_list(_, _, _, _)
accept_list(Aflags, cl, c, n) ==
    IF c >= n THEN <<>>
    ELSE (IF calc_acc(Aflags, cl, c) THEN <<c>> ELSE <<>>) \o accept_list(Aflags, cl, c + 1, n)

\* the target printed without its class lookup
row_target_raw(Tt, cl, r, x) == Tt[r + 1][x]

row_target(Tt, cl, r, x) == cl[Tt[r + 1][x] + 1]

write_min_dfa(ALPH, Tt, Aflags, cl, n) ==
    [k |-> Len(ALPH),
     symbols |-> ALPH,
     states |-> n,
     start |-> cl[1],
     accept |-> accept_list(Aflags, cl, 0, n),
     rows |-> [c \in 1..n |-> [x \in 1..Len(ALPH) |-> row_target(Tt, cl, calc_rep(cl, c - 1), x)]],
     end |-> TRUE]

(* ------------------------------------------------------------------ *)
(* main from add_concat_ops to write_min_dfa, for a preprocessed pattern *)
(* that has passed the two checks: the table written, or the diagnostic  *)
(* ------------------------------------------------------------------ *)
compile(ALPH, pre) ==
    LET po == to_postfix(ALPH, add_concat_ops(ALPH, pre)) IN
    IF po.err /= "" THEN [err |-> po.err, out |-> <<>>]
    ELSE LET n == postfix_to_nfa(ALPH, po.out) IN
         IF n.err /= "" THEN [err |-> n.err, out |-> <<>>]
         ELSE LET d == nfa_to_dfa(ALPH, n.nfa, n.st[1].start, n.st[1].accept) IN
              IF d.err /= "" THEN [err |-> d.err, out |-> <<>>]
              ELSE LET m == dfa_minimize(ALPH, d.dfa) IN
                   [err |-> "",
                    out |-> write_min_dfa(ALPH, complete_T(ALPH, d.dfa), complete_A(d.dfa),
                                          m.cls, m.min_n)]

(* ------------------------------------------------------------------ *)
(* State                                                               *)
(* ------------------------------------------------------------------ *)
VARIABLES
    pc,          \* the statement of main() the run is at
    argc,        \* the command line: its argument count
    infile,      \* the input file: [ok, lines]
    line_regex,  \* main's buffers after read_two_lines
    line_alpha,
    ALPHABET,    \* ALPHABET[0..ALPHABET_SIZE-1]
    regex0,      \* preprocess_regex's result
    regex1,      \* add_concat_ops's result
    post,        \* to_postfix's result
    nfa,         \* nfa[0..nfa_states-1]
    frag,        \* the fragment postfix_to_nfa returns
    st_top,      \* st.top when postfix_to_nfa leaves its loop
    dfa,         \* dfa[0..dfa_n-1]
    need_dead,   \* dfa_minimize's locals
    dead,
    T,
    A,
    P,
    cls,
    W,
    Ablock,
    a,           \* the symbol loop's index, 0-based
    yi,          \* the block loop's index
    mark,        \* the set of states with mark[s] = 1
    min_n,       \* *out_min_n
    outfile,     \* the output file: "untouched", "open", "complete"
    out,         \* what write_min_dfa printed
    exit_code,   \* -1 while the process runs
    err,         \* the diagnostic on stderr
    \* locals of three loops, seen when the loops are taken a pass at a time
    alpha_i,     \* parse_alphabet_line's i
    nfa_i,       \* postfix_to_nfa's i
    nfa_st,      \* postfix_to_nfa's st, the fragment stack
    dfa_q,       \* nfa_to_dfa's q[0..qt-1]
    dfa_qh,      \* nfa_to_dfa's qh, the states taken off q
    dfa_ai,      \* nfa_to_dfa's ai
    \* dfa_checker.c, the comparator
    cmp_pc,      \* the statement of the comparator's main() the run is at
    cmp_args,    \* its command line: [argc, ref, usr, tests], the three files
    ref,         \* DFA ref after dfa_read
    usr,         \* DFA usr after dfa_read
    line_no,     \* the number of lines fgets has returned
    total,       \* the number of tests run on both DFAs
    warnings,    \* the line numbers of the label warnings printed
    cmp_exit,    \* -1 while the comparator runs
    cmp_err,     \* what the comparator printed last: the diagnostic, or "PASS"
    \* dfa2table.c, the converter of a user's transition list
    tbl_pc,          \* the statement of the converter's main() the run is at
    tbl_args,        \* its command line: [argc, alph, spec, out_ok]
    tbl_A,           \* A.alphabet[0..A.k-1]
    tbl_start_q,     \* start_q
    tbl_accepting,   \* accepting[]: the bytes written since calloc, by index
    tbl_acc_seen_any,
    tbl_max_q,       \* max_q
    tbl_trans,       \* trans[]: the cells written since line 139, by <<state, symbol index>>
    tbl_line_no,     \* the number of lines fgets has returned
    tbl_dead,        \* dead
    tbl_out_n,       \* out_n
    tbl_out,         \* what the converter printed
    tbl_exit,        \* -1 while the converter runs
    tbl_err          \* its diagnostic

inVars == <<argc, infile>>

frontVars == <<line_regex, line_alpha, ALPHABET, regex0, regex1, post>>

nfaVars == <<nfa, frag, st_top>>

minVars == <<need_dead, dead, T, A, P, cls, W, Ablock, a, yi, mark, min_n>>

outVars == <<outfile, out>>

nfaStep == <<nfa_i, nfa_st>>

dfaStep == <<dfa_q, dfa_qh, dfa_ai>>

stepVars == <<alpha_i, nfaStep, dfaStep>>

tblVars == <<tbl_pc, tbl_args, tbl_A, tbl_start_q, tbl_accepting, tbl_acc_seen_any, tbl_max_q,
             tbl_trans, tbl_line_no, tbl_dead, tbl_out_n, tbl_out, tbl_exit, tbl_err>>

cmpVars == <<cmp_pc, cmp_args, ref, usr, line_no, total, warnings, cmp_exit, cmp_err>>

vars == <<pc, argc, infile, line_regex, line_alpha, ALPHABET, regex0, regex1, post,
          nfa, frag, st_top, dfa, need_dead, dead, T, A, P, cls, W, Ablock, a, yi,
          mark, min_n, outfile, out, exit_code, err,
          alpha_i, nfa_i, nfa_st, dfa_q, dfa_qh, dfa_ai,
          cmp_pc, cmp_args, ref, usr, line_no, total, warnings, cmp_exit, cmp_err,
          tbl_pc, tbl_args, tbl_A, tbl_start_q, tbl_accepting, tbl_acc_seen_any, tbl_max_q,
          tbl_trans, tbl_line_no, tbl_dead, tbl_out_n, tbl_out, tbl_exit, tbl_err>>

NoOut == [k |-> 0, symbols |-> <<>>, states |-> 0, start |-> -1, accept |-> <<>>,
          rows |-> <<>>, end |-> FALSE]

(* ------------------------------------------------------------------ *)
(* Inputs: a command line and an input file                            *)
(* ------------------------------------------------------------------ *)
Run(n, ok, lines) == [argc |-> n, file |-> [ok |-> ok, lines |-> lines]]

\* a b | + * ( ) <eps>
PatPieces == {<<97>>, <<98>>, <<124>>, <<43>>, <<42>>, <<40>>, <<41>>, EpsAscii}

PatLines == {Flatten(ps) : ps \in SeqsUpTo(PatPieces, MaxPat)}

\* "a" and "ab"
AlphaLines == {<<97>>, <<97, 98>>}

\* Longer patterns, each with its alphabet line:
\*   (a|b)*abb / ab      a(b|c)* / abc      a*a|bb / ab      a*a|bab / ab
\*   (a|b)*abb / "a b"   ba|a*b / a,b       a*b*|ba / ab     a*b*c* / abc
\*   ba*b|baa / ab
ScenarioRuns ==
    { << <<40, 97, 124, 98, 41, 42, 97, 98, 98>>, <<97, 98>> >>,
      << <<97, 40, 98, 124, 99, 41, 42>>, <<97, 98, 99>> >>,
      << <<97, 42, 97, 124, 98, 98>>, <<97, 98>> >>,
      << <<97, 42, 97, 124, 98, 97, 98>>, <<97, 98>> >>,
      << <<40, 97, 124, 98, 41, 42, 97, 98, 98>>, <<97, 32, 98>> >>,
      << <<98, 97, 124, 97, 42, 98>>, <<97, 44, 98>> >>,
      << <<97, 42, 98, 42, 124, 98, 97>>, <<97, 98>> >>,
      << <<97, 42, 98, 42, 99, 42>>, <<97, 98, 99>> >>,
      << <<98, 97, 42, 98, 124, 98, 97, 97>>, <<97, 98>> >> }

\* usage error, unreadable file, empty file, one-line file
BadRuns == {Run(2, TRUE, <<>>), Run(4, TRUE, <<>>), Run(3, FALSE, <<>>), Run(3, TRUE, <<>>),
            Run(3, TRUE, << <<97>> >>)}

Inputs ==
    BadRuns
    \cup {Run(3, TRUE, <<p, al>>) : p \in PatLines, al \in AlphaLines}
    \cup {Run(3, TRUE, <<sc[1], sc[2]>>) : sc \in ScenarioRuns}

\* the comparator is not running
NoDFA == [k |-> 0, alphabet |-> <<>>, n |-> 0, start |-> 0, acc |-> <<>>, trans |-> <<>>]

NoArgs == [argc |-> 0]

\* the converter is not running
TblIdle ==
    /\ tbl_pc = "idle" /\ tbl_args = NoArgs
    /\ tbl_A = <<>> /\ tbl_start_q = -1
    /\ tbl_accepting = <<>> /\ tbl_acc_seen_any = FALSE
    /\ tbl_max_q = -1 /\ tbl_trans = <<>>
    /\ tbl_line_no = 0 /\ tbl_dead = -1 /\ tbl_out_n = 0
    /\ tbl_out = NoOut
    /\ tbl_exit = -1 /\ tbl_err = ""

CmpIdle ==
    /\ cmp_pc = "idle" /\ cmp_args = NoArgs
    /\ ref = NoDFA /\ usr = NoDFA
    /\ line_no = 0 /\ total = 0 /\ warnings = <<>>
    /\ cmp_exit = -1 /\ cmp_err = ""

\* the compiler's state at the entry of main, all globals zeroed
CompilerAt(label) ==
    /\ pc = label
    /\ line_regex = <<>> /\ line_alpha = <<>>
    /\ ALPHABET = <<>>
    /\ regex0 = <<>> /\ regex1 = <<>> /\ post = <<>>
    /\ nfa = <<>> /\ frag = [start |-> -1, accept |-> -1] /\ st_top = 0
    /\ dfa = <<>>
    /\ need_dead = FALSE /\ dead = -1
    /\ T = <<>> /\ A = <<>> /\ P = <<>> /\ cls = <<>> /\ W = <<>>
    /\ Ablock = -1 /\ a = 0 /\ yi = 0 /\ mark = {}
    /\ min_n = 0
    /\ outfile = "untouched" /\ out = NoOut
    /\ exit_code = -1 /\ err = ""
    /\ alpha_i = 0 /\ nfa_i = 0 /\ nfa_st = <<>> /\ dfa_q = <<>> /\ dfa_qh = 0 /\ dfa_ai = 0

InitWith(inputs) ==
    /\ \E in \in inputs : argc = in.argc /\ infile = in.file
    /\ CompilerAt("main")
    /\ CmpIdle
    /\ TblIdle

Init == InitWith(Inputs)

(* ------------------------------------------------------------------ *)
(* main(), one action per call                                          *)
(* ------------------------------------------------------------------ *)
\* die(msg): the diagnostic, then exit(1)
die(msg) == pc' = "exit" /\ exit_code' = 1 /\ err' = msg

goto(label) == pc' = label /\ UNCHANGED <<exit_code, err>>

\* fgets: the line with its newline
fgets(l) == Append(l, 10)

\* the argc test, fopen of the input and read_two_lines
ReadInput ==
    /\ pc = "main"
    /\ IF argc /= 3 THEN die("usage") /\ UNCHANGED <<line_regex, line_alpha>>
       ELSE IF ~infile.ok THEN die("cannot open input file") /\ UNCHANGED <<line_regex, line_alpha>>
       ELSE IF Len(infile.lines) < 2
            THEN /\ die("input must have 2 lines: regex then alphabet")
                 /\ line_regex' = (IF Len(infile.lines) >= 1 THEN fgets(infile.lines[1]) ELSE <<>>)
                 /\ UNCHANGED line_alpha
       ELSE /\ line_regex' = fgets(infile.lines[1])
            /\ line_alpha' = fgets(infile.lines[2])
            /\ goto("parse_alphabet")
    /\ UNCHANGED <<inVars, ALPHABET, regex0, regex1, post, nfaVars, dfa, minVars, outVars>>
    /\ UNCHANGED <<stepVars, cmpVars, tblVars>>

ParseAlphabet ==
    /\ pc = "parse_alphabet"
    /\ LET r == parse_alphabet_line(line_alpha) IN
       /\ ALPHABET' = r.alpha
       /\ IF r.err /= "" THEN die(r.err) ELSE goto("preprocess")
    /\ UNCHANGED <<inVars, line_regex, line_alpha, regex0, regex1, post, nfaVars, dfa, minVars, outVars>>
    /\ UNCHANGED <<stepVars, cmpVars, tblVars>>

Preprocess ==
    /\ pc = "preprocess"
    /\ regex0' = preprocess_regex(line_regex)
    /\ IF regex0' = <<>> THEN die("empty regex") ELSE goto("check_symbols")
    /\ UNCHANGED <<inVars, line_regex, line_alpha, ALPHABET, regex1, post, nfaVars, dfa, minVars, outVars>>
    /\ UNCHANGED <<stepVars, cmpVars, tblVars>>

CheckSymbols ==
    /\ pc = "check_symbols"
    /\ LET e == check_regex_symbols_valid(ALPHABET, regex0) IN
       IF e /= "" THEN die(e) ELSE goto("check_parens")
    /\ UNCHANGED <<inVars, frontVars, nfaVars, dfa, minVars, outVars>>
    /\ UNCHANGED <<stepVars, cmpVars, tblVars>>

CheckParens ==
    /\ pc = "check_parens"
    /\ LET e == check_parentheses_balanced(regex0) IN
       IF e /= "" THEN die(e) ELSE goto("add_concat")
    /\ UNCHANGED <<inVars, frontVars, nfaVars, dfa, minVars, outVars>>
    /\ UNCHANGED <<stepVars, cmpVars, tblVars>>

AddConcat ==
    /\ pc = "add_concat"
    /\ regex1' = add_concat_ops(ALPHABET, regex0)
    /\ goto("to_postfix")
    /\ UNCHANGED <<inVars, line_regex, line_alpha, ALPHABET, regex0, post, nfaVars, dfa, minVars, outVars>>
    /\ UNCHANGED <<stepVars, cmpVars, tblVars>>

ToPostfix ==
    /\ pc = "to_postfix"
    /\ LET r == to_postfix(ALPHABET, regex1) IN
       /\ post' = r.out
       /\ IF r.err /= "" THEN die(r.err) ELSE goto("postfix_to_nfa")
    /\ UNCHANGED <<inVars, line_regex, line_alpha, ALPHABET, regex0, regex1, nfaVars, dfa, minVars, outVars>>
    /\ UNCHANGED <<stepVars, cmpVars, tblVars>>

PostfixToNfa ==
    /\ pc = "postfix_to_nfa"
    /\ LET r == postfix_to_nfa(ALPHABET, post) IN
       /\ nfa' = r.nfa
       /\ st_top' = Len(r.st)
       /\ IF r.err /= "" THEN die(r.err) /\ UNCHANGED frag
          ELSE frag' = r.st[1] /\ goto("nfa_to_dfa")
    /\ UNCHANGED <<inVars, frontVars, dfa, minVars, outVars>>
    /\ UNCHANGED <<stepVars, cmpVars, tblVars>>

NfaToDfa ==
    /\ pc = "nfa_to_dfa"
    /\ LET r == nfa_to_dfa(ALPHABET, nfa, frag.start, frag.accept) IN
       /\ dfa' = r.dfa
       /\ IF r.err /= "" THEN die(r.err) ELSE goto("minimize")
    /\ UNCHANGED <<inVars, frontVars, nfaVars, minVars, outVars>>
    /\ UNCHANGED <<stepVars, cmpVars, tblVars>>

(* ------------------------------------------------------------------ *)
(* parse_alphabet_line, postfix_to_nfa and nfa_to_dfa, one action per  *)
(* pass of their loops                                                 *)
(* ------------------------------------------------------------------ *)
\* line 75: ALPHABET_SIZE=0
AlphaBegin ==
    /\ pc = "parse_alphabet"
    /\ ALPHABET' = <<>>
    /\ alpha_i' = 0
    /\ goto("alpha_loop")
    /\ UNCHANGED <<inVars, line_regex, line_alpha, regex0, regex1, post, nfaVars, dfa, minVars, outVars,
                   nfaStep, dfaStep, cmpVars, tblVars>>

\* lines 77-93: one byte of the alphabet line
AlphaByte ==
    /\ pc = "alpha_loop"
    /\ alpha_i < Len(line_alpha)
    /\ LET r == alphabet_byte(ALPHABET, line_alpha[alpha_i + 1]) IN
       IF r = "skip" THEN alpha_i' = alpha_i + 1 /\ UNCHANGED <<ALPHABET, pc, exit_code, err>>
       ELSE IF r = ""
       THEN /\ ALPHABET' = Append(ALPHABET, line_alpha[alpha_i + 1])
            /\ alpha_i' = alpha_i + 1
            /\ UNCHANGED <<pc, exit_code, err>>
       ELSE die(r) /\ UNCHANGED <<ALPHABET, alpha_i>>
    /\ UNCHANGED <<inVars, line_regex, line_alpha, regex0, regex1, post, nfaVars, dfa, minVars, outVars,
                   nfaStep, dfaStep, cmpVars, tblVars>>

\* line 94: the line held no symbol
AlphaEnd ==
    /\ pc = "alpha_loop"
    /\ alpha_i = Len(line_alpha)
    /\ IF Len(ALPHABET) = 0 THEN die("alphabet is empty") ELSE goto("preprocess")
    /\ UNCHANGED <<inVars, frontVars, nfaVars, dfa, minVars, outVars, stepVars, cmpVars, tblVars>>

\* line 271: fs_init
NfaBegin ==
    /\ pc = "postfix_to_nfa"
    /\ nfa_i' = 0
    /\ nfa_st' = <<>>
    /\ goto("nfa_loop")
    /\ UNCHANGED <<inVars, frontVars, nfaVars, dfa, minVars, outVars, alpha_i, dfaStep, cmpVars, tblVars>>

\* lines 273-304: one token of post
NfaToken ==
    /\ pc = "nfa_loop"
    /\ nfa_i < Len(post)
    /\ LET r == postfix_step(ALPHABET, post[nfa_i + 1], nfa, nfa_st) IN
       IF r.err /= ""
       THEN die(r.err) /\ UNCHANGED <<nfa, nfa_st, nfa_i>>
       ELSE nfa' = r.nfa /\ nfa_st' = r.st /\ nfa_i' = nfa_i + 1 /\ UNCHANGED <<pc, exit_code, err>>
    /\ UNCHANGED <<inVars, frontVars, frag, st_top, dfa, minVars, outVars, alpha_i, dfaStep, cmpVars, tblVars>>

\* lines 305-308: the stack holds the one fragment to return
NfaEnd ==
    /\ pc = "nfa_loop"
    /\ nfa_i = Len(post)
    /\ st_top' = Len(nfa_st)
    /\ IF Len(nfa_st) /= 1 THEN die(NotSingleton) /\ UNCHANGED frag
       ELSE frag' = nfa_st[1] /\ goto("nfa_to_dfa")
    /\ UNCHANGED <<inVars, frontVars, nfa, dfa, minVars, outVars, stepVars, cmpVars, tblVars>>

\* lines 386-396: state 0 and the queue that holds it
SubsetBegin ==
    /\ pc = "nfa_to_dfa"
    /\ dfa' = <<new_dfa_state(ALPHABET, eps_closure(nfa, {frag.start}), frag.accept)>>
    /\ dfa_q' = <<0>>
    /\ dfa_qh' = 0
    /\ dfa_ai' = 0
    /\ goto("subset_loop")
    /\ UNCHANGED <<inVars, frontVars, nfaVars, minVars, outVars, alpha_i, nfaStep, cmpVars, tblVars>>

\* lines 401-417: one cell of the state at the head of the queue; the head
\* moves on after the last symbol
SubsetCell ==
    /\ pc = "subset_loop"
    /\ dfa_qh < Len(dfa_q)
    /\ LET r == subset_cell(ALPHABET, nfa, frag.accept, dfa, dfa_q, dfa_q[dfa_qh + 1], dfa_ai + 1) IN
       IF r.err /= ""
       THEN die(r.err) /\ UNCHANGED <<dfa, dfa_q, dfa_qh, dfa_ai>>
       ELSE /\ dfa' = r.dfa
            /\ dfa_q' = r.q
            /\ IF dfa_ai + 1 < Len(ALPHABET)
               THEN dfa_ai' = dfa_ai + 1 /\ UNCHANGED dfa_qh
               ELSE dfa_ai' = 0 /\ dfa_qh' = dfa_qh + 1
            /\ UNCHANGED <<pc, exit_code, err>>
    /\ UNCHANGED <<inVars, frontVars, nfaVars, minVars, outVars, alpha_i, nfaStep, cmpVars, tblVars>>

\* line 401: qh = qt
SubsetEnd ==
    /\ pc = "subset_loop"
    /\ dfa_qh = Len(dfa_q)
    /\ goto("minimize")
    /\ UNCHANGED <<inVars, frontVars, nfaVars, dfa, minVars, outVars, stepVars, cmpVars, tblVars>>

(* ------------------------------------------------------------------ *)
(* dfa_minimize                                                         *)
(* ------------------------------------------------------------------ *)
\* lines 437-498: completion, the initial partition, the worklist
MinimizeStart ==
    /\ pc = "minimize"
    /\ need_dead' = calc_need_dead(dfa)
    /\ dead' = calc_dead(dfa)
    /\ T' = complete_T(ALPHABET, dfa)
    /\ A' = complete_A(dfa)
    /\ LET nF == Cardinality({s \in 1..Len(A') : A'[s]})
           nNF == Cardinality({s \in 1..Len(A') : ~A'[s]}) IN
       IF nF = 0 \/ nNF = 0
       THEN /\ cls' = [s \in 1..Len(A') |-> 0]
            /\ min_n' = 1
            /\ goto("open_out")
            /\ UNCHANGED <<P, W>>
       ELSE /\ P' = initial_P(A')
            /\ cls' = cls_of(P', Len(A'))
            /\ W' = initial_W(P')
            /\ goto("hop_loop")
            /\ UNCHANGED min_n
    /\ UNCHANGED <<inVars, frontVars, nfaVars, dfa, Ablock, a, yi, mark, outVars>>
    /\ UNCHANGED <<stepVars, cmpVars, tblVars>>

\* HopPop with the id left on W
HopPopKeep ==
    /\ pc = "hop_loop"
    /\ Len(W) > 0
    /\ Ablock' = Last(W)
    /\ W' = W
    /\ a' = 0
    /\ mark' = calc_mark(T, P, Ablock', 1)
    /\ yi' = 0
    /\ goto("hop_sym")
    /\ UNCHANGED <<inVars, frontVars, nfaVars, dfa, need_dead, dead, T, A, P, cls, min_n, outVars>>
    /\ UNCHANGED <<stepVars, cmpVars, tblVars>>

\* while(W.n>0): pop the last id; the mark loop of symbol 0
HopPop ==
    /\ pc = "hop_loop"
    /\ Len(W) > 0
    /\ Ablock' = Last(W)
    /\ W' = Front(W)
    /\ a' = 0
    /\ mark' = calc_mark(T, P, Ablock', 1)
    /\ yi' = 0
    /\ goto("hop_sym")
    /\ UNCHANGED <<inVars, frontVars, nfaVars, dfa, need_dead, dead, T, A, P, cls, min_n, outVars>>
    /\ UNCHANGED <<stepVars, cmpVars, tblVars>>

\* the yi loop up to and including the next block that is split
HopSplit ==
    /\ pc = "hop_sym"
    /\ \E y \in yi..(Len(P) - 1) :
         /\ splits(P, mark, y)
         /\ \A z \in yi..(y - 1) : ~splits(P, mark, z)
         /\ P' = split_P(P, mark, y)
         /\ cls' = split_cls(cls, P', y)
         /\ W' = split_W(W, P', y)
         /\ yi' = y + 1
    /\ goto("hop_sym")
    /\ UNCHANGED <<inVars, frontVars, nfaVars, dfa, need_dead, dead, T, A, Ablock, a, mark, min_n, outVars>>
    /\ UNCHANGED <<stepVars, cmpVars, tblVars>>

\* the yi loop runs out: the next symbol's mark loop, or back to while(W.n>0)
HopNextSym ==
    /\ pc = "hop_sym"
    /\ \A y \in yi..(Len(P) - 1) : ~splits(P, mark, y)
    /\ IF a + 1 < Len(ALPHABET)
       THEN /\ a' = a + 1
            /\ mark' = calc_mark(T, P, Ablock, a' + 1)
            /\ yi' = 0
            /\ goto("hop_sym")
       ELSE /\ yi' = Len(P)
            /\ goto("hop_loop")
            /\ UNCHANGED <<a, mark>>
    /\ UNCHANGED <<inVars, frontVars, nfaVars, dfa, need_dead, dead, T, A, P, cls, W, Ablock, min_n, outVars>>
    /\ UNCHANGED <<stepVars, cmpVars, tblVars>>

\* W is empty: *out_min_n = Pn
MinimizeEnd ==
    /\ pc = "hop_loop"
    /\ Len(W) = 0
    /\ min_n' = Len(P)
    /\ goto("open_out")
    /\ UNCHANGED <<inVars, frontVars, nfaVars, dfa, need_dead, dead, T, A, P, cls, W, Ablock, a, yi, mark, outVars>>
    /\ UNCHANGED <<stepVars, cmpVars, tblVars>>

(* ------------------------------------------------------------------ *)
(* the output file                                                      *)
(* ------------------------------------------------------------------ *)
\* fopen without the test of its result
open_output_unchecked(ok) == [err |-> "", file |-> IF ok THEN "open" ELSE "untouched"]

\* fopen(argv[2],"w") and its test
open_output(ok) ==
    IF ok THEN [err |-> "", file |-> "open"]
    ELSE [err |-> "cannot open output file for writing", file |-> "untouched"]

OpenOutput ==
    /\ pc = "open_out"
    /\ \E ok \in BOOLEAN :
         LET r == open_output(ok) IN
         /\ outfile' = r.file
         /\ IF r.err /= "" THEN die(r.err) ELSE goto("write")
    /\ UNCHANGED <<inVars, frontVars, nfaVars, dfa, minVars, out>>
    /\ UNCHANGED <<stepVars, cmpVars, tblVars>>

\* write_min_dfa, fclose, return 0
WriteOutput ==
    /\ pc = "write"
    /\ out' = write_min_dfa(ALPHABET, complete_T(ALPHABET, dfa), complete_A(dfa), cls, min_n)
    /\ outfile' = (IF outfile = "open" THEN "complete" ELSE outfile)
    /\ pc' = "exit"
    /\ exit_code' = 0
    /\ UNCHANGED err
    /\ UNCHANGED <<inVars, frontVars, nfaVars, dfa, minVars>>
    /\ UNCHANGED <<stepVars, cmpVars, tblVars>>

Next ==
    \/ ReadInput
    \/ ParseAlphabet
    \/ Preprocess
    \/ CheckSymbols
    \/ CheckParens
    \/ AddConcat
    \/ ToPostfix
    \/ PostfixToNfa
    \/ NfaToDfa
    \/ MinimizeStart
    \/ HopPop
    \/ HopSplit
    \/ HopNextSym
    \/ MinimizeEnd
    \/ OpenOutput
    \/ WriteOutput

Spec == Init /\ [][Next]_vars

(* ------------------------------------------------------------------ *)
(* The reference semantics of a pattern: the grammar                    *)
(*     E ::= C (('|' | '+') C)*     C ::= F F*     F ::= B '*'*          *)
(*     B ::= symbol | epsilon | '(' E ')'                                *)
(* read off the preprocessed token stream, with the language of each    *)
(* phrase as the set of its strings of length <= MaxW.                  *)
(* ------------------------------------------------------------------ *)
ConcatLang(L1, L2) == {w \in {x \o y : x \in L1, y \in L2} : Len(w) <= MaxW}

RECURSIVE StarFrom(_, _)
StarFrom(S, L) ==
    LET S2 == S \cup ConcatLang(S, L) IN IF S2 = S THEN S ELSE StarFrom(S2, L)

StarLang(L) == StarFrom({<<>>}, L)

ParseFail == [ok |-> FALSE, pos |-> 0, lang |-> {}]

RECURSIVE ParseE(_, _, _), ParseERest(_, _, _, _), ParseC(_, _, _), ParseCRest(_, _, _, _),
          ParseF(_, _, _), ParseStars(_, _, _), ParseB(_, _, _)

ParseB(ALPH, t, i) ==
    IF i > Len(t) THEN ParseFail
    ELSE IF t[i] = EPS_TOK THEN [ok |-> TRUE, pos |-> i + 1, lang |-> {<<>>}]
    ELSE IF is_alphabet_symbol(ALPH, t[i]) THEN [ok |-> TRUE, pos |-> i + 1, lang |-> {<<t[i]>>}]
    ELSE IF t[i] = 40
         THEN LET r == ParseE(ALPH, t, i + 1) IN
              IF r.ok /\ r.pos <= Len(t) /\ t[r.pos] = 41
              THEN [ok |-> TRUE, pos |-> r.pos + 1, lang |-> r.lang]
              ELSE ParseFail
    ELSE ParseFail

ParseStars(t, i, lang) ==
    IF i <= Len(t) /\ t[i] = 42 THEN ParseStars(t, i + 1, StarLang(lang))
    ELSE [ok |-> TRUE, pos |-> i, lang |-> lang]

ParseF(ALPH, t, i) ==
    LET r == ParseB(ALPH, t, i) IN IF r.ok THEN ParseStars(t, r.pos, r.lang) ELSE ParseFail

ParseCRest(ALPH, t, i, lang) ==
    IF i <= Len(t) /\ (t[i] = EPS_TOK \/ t[i] = 40 \/ is_alphabet_symbol(ALPH, t[i]))
    THEN LET r == ParseF(ALPH, t, i) IN
         IF r.ok THEN ParseCRest(ALPH, t, r.pos, ConcatLang(lang, r.lang)) ELSE ParseFail
    ELSE [ok |-> TRUE, pos |-> i, lang |-> lang]

ParseC(ALPH, t, i) ==
    LET r == ParseF(ALPH, t, i) IN IF r.ok THEN ParseCRest(ALPH, t, r.pos, r.lang) ELSE ParseFail

ParseERest(ALPH, t, i, lang) ==
    IF i <= Len(t) /\ (t[i] = 124 \/ t[i] = 43)
    THEN LET r == ParseC(ALPH, t, i + 1) IN
         IF r.ok THEN ParseERest(ALPH, t, r.pos, lang \cup r.lang) ELSE ParseFail
    ELSE [ok |-> TRUE, pos |-> i, lang |-> lang]

ParseE(ALPH, t, i) ==
    LET r == ParseC(ALPH, t, i) IN IF r.ok THEN ParseERest(ALPH, t, r.pos, r.lang) ELSE ParseFail

\* t is an expression of the grammar
WellFormed(ALPH, t) == LET r == ParseE(ALPH, t, 1) IN r.ok /\ r.pos = Len(t) + 1

\* the strings of length <= MaxW in the language of t
LangOf(ALPH, t) == ParseE(ALPH, t, 1).lang

(* ------------------------------------------------------------------ *)
(* Reading an emitted table                                             *)
(* ------------------------------------------------------------------ *)
SymIndex(d, c) == CHOOSE x \in 1..d.k : d.symbols[x] = c

RECURSIVE RunFrom(_, _, _)
RunFrom(d, s, w) == IF w = <<>> THEN s ELSE RunFrom(d, d.rows[s + 1][SymIndex(d, Head(w))], Tail(w))

IsAccepting(d, s) == \E i \in 1..Len(d.accept) : d.accept[i] = s

Accepts(d, w) == IsAccepting(d, RunFrom(d, d.start, w))

Words(ALPH) == SeqsUpTo({ALPH[i] : i \in 1..Len(ALPH)}, MaxW)

Succeeded == pc = "exit" /\ exit_code = 0

\* the pattern line and the alphabet line of the input file
InputIs(p, al) == argc = 3 /\ infile.ok /\ infile.lines = <<p, al>>

RECURSIVE ReachFrom(_, _)
ReachFrom(d, S) ==
    LET S2 == S \cup {d.rows[s + 1][x] : s \in S, x \in 1..d.k} IN
    IF S2 = S THEN S ELSE ReachFrom(d, S2)

AllReachable(d) == ReachFrom(d, {d.start}) = 0..(d.states - 1)

\* some string of length <= n is accepted from exactly one of s and t
RECURSIVE Distinguishable(_, _, _, _)
Distinguishable(d, s, t, n) ==
    \/ IsAccepting(d, s) /= IsAccepting(d, t)
    \/ /\ n > 0
       /\ s /= t
       /\ \E x \in 1..d.k : Distinguishable(d, d.rows[s + 1][x], d.rows[t + 1][x], n - 1)

NoEquivalentPair(d) ==
    \A s, t \in 0..(d.states - 1) : s < t => Distinguishable(d, s, t, d.states)

(* ------------------------------------------------------------------ *)
(* Claims                                                              *)
(* ------------------------------------------------------------------ *)

\* C1: for every accepted pattern and every string w over the alphabet of
\* length <= MaxW, the emitted DFA accepts w iff w is in the language of the
\* pattern ('|' and '+' union, '*' star, juxtaposition concatenation, <eps>
\* the empty string).
C1_LanguagePreserved ==
    Succeeded =>
        \A w \in Words(ALPHABET) : Accepts(out, w) <=> (w \in LangOf(ALPHABET, regex0))

\* C2: the emitted DFA is minimal: every emitted state is reachable from START
\* and no two distinct emitted states accept the same set of suffixes.
C2_Minimal == Succeeded => AllReachable(out) /\ NoEquivalentPair(out)

\* C3: every emitted DFA is total and in range: exactly n rows of exactly k
\* targets, every target, START and every id of the ACCEPT list in [0, n).
C3_TotalInRange ==
    Succeeded =>
        /\ out.k = Len(ALPHABET)
        /\ out.states >= 1
        /\ Len(out.rows) = out.states
        /\ \A c \in 1..Len(out.rows) :
             /\ Len(out.rows[c]) = out.k
             /\ \A x \in 1..out.k : out.rows[c][x] \in 0..(out.states - 1)
        /\ out.start \in 0..(out.states - 1)
        /\ \A i \in 1..Len(out.accept) : out.accept[i] \in 0..(out.states - 1)

C3_Witness == Succeeded /\ out.states >= 3 /\ out.k = 2

\* the accepting flag of a state of the complete DFA: that of the subset
\* construction, and none for the dead state
PreAccepting(s) == s < Len(dfa) /\ dfa[s + 1].is_accept

Refining == pc \in {"hop_loop", "hop_sym"}

Minimized == pc \in {"open_out", "write"} \/ Succeeded

\* C4: at every step of the refinement no block mixes accepting and
\* non-accepting states, and in the emitted table a class is listed in ACCEPT
\* iff some member is accepting iff every member is accepting, with
\* 0 <= m <= n.
C4_AcceptHomogeneous ==
    /\ (Refining \/ Minimized) =>
          \A i \in 1..Len(P) : \A j, k \in 1..Len(P[i]) :
              PreAccepting(P[i][j]) = PreAccepting(P[i][k])
    /\ Succeeded =>
          /\ \A c \in 0..(out.states - 1) :
               LET members == {s \in 0..(Len(cls) - 1) : cls[s + 1] = c} IN
               /\ members /= {}
               /\ IsAccepting(out, c) <=> (\E s \in members : PreAccepting(s))
               /\ IsAccepting(out, c) <=> (\A s \in members : PreAccepting(s))
          /\ Len(out.accept) \in 0..out.states
          /\ \A i, j \in 1..Len(out.accept) : i < j => out.accept[i] < out.accept[j]

C4_Witness == pc = "hop_sym" /\ Len(P) >= 3 /\ \E i \in 1..Len(P) : Len(P[i]) >= 2

\* "a|b" and "ab"
PatAorB == <<97, 124, 98>>

AlphaAB == <<97, 98>>

\* C5 as stated: a|b over ab emits exactly 4 states, exactly two accepting.
C5_Original ==
    (Succeeded /\ InputIs(PatAorB, AlphaAB)) => out.states = 4 /\ Len(out.accept) = 2

\* C5: a|b over ab emits exactly 3 states (start, accept, dead), exactly one of
\* them accepting: both symbols lead from the start to the accepting state,
\* from there to the dead state, which loops.
C5_AorB ==
    (Succeeded /\ InputIs(PatAorB, AlphaAB)) =>
        /\ out.states = 3
        /\ Len(out.accept) = 1
        /\ ~IsAccepting(out, out.start)
        /\ \A x \in 1..2 :
             LET acc == out.rows[out.start + 1][x]
                 dd == out.rows[acc + 1][x] IN
             /\ IsAccepting(out, acc)
             /\ acc = out.rows[out.start + 1][1]
             /\ dd \notin {acc, out.start}
             /\ out.rows[dd + 1] = <<dd, dd>>

C5_Witness == Succeeded /\ InputIs(PatAorB, AlphaAB) /\ out.end

\* "a|<eps>" and "a"
PatAorEps == <<97, 124>> \o EpsAscii

AlphaA == <<97>>

\* C6 as stated: a|<eps> over a emits STATES 2, START 0, ACCEPT 2 0 1,
\* row 0 = 1, row 1 = 1.
C6_Original ==
    (Succeeded /\ InputIs(PatAorEps, AlphaA)) =>
        /\ out.states = 2
        /\ out.start = 0
        /\ out.accept = <<0, 1>>
        /\ out.rows = << <<1>>, <<1>> >>

\* C6: a|<eps> over a emits STATES 3, START 2, ACCEPT 2 0 2, row 0 = 1,
\* row 1 = 1, row 2 = 0.
C6_AorEps ==
    (Succeeded /\ InputIs(PatAorEps, AlphaA)) =>
        /\ out.states = 3
        /\ out.start = 2
        /\ out.accept = <<0, 2>>
        /\ out.rows = << <<1>>, <<1>>, <<0>> >>

C6_Witness == Succeeded /\ InputIs(PatAorEps, AlphaA) /\ out.symbols = AlphaA

PostfixFailed == pc = "exit" /\ err \in {Underflow, NotSingleton}

NfaBuilt ==
    \/ pc \in {"nfa_to_dfa", "minimize", "hop_loop", "hop_sym", "open_out", "write"}
    \/ pc = "exit" /\ err \in {"", "too many DFA states", "cannot open output file for writing"}

\* C8 as stated: no pattern that is non-empty after preprocessing and passes
\* the symbol and parenthesis checks makes postfix_to_nfa pop an empty stack or
\* end with other than one fragment.
C8_Original == ~PostfixFailed

\* C8: a pattern that passes the checks and is an expression of the grammar
\* never makes postfix_to_nfa pop an empty stack and leaves exactly one
\* fragment; one that is not an expression of the grammar ends in the
\* malformed-postfix error.
C8_PostfixWellFormed ==
    /\ PostfixFailed => ~WellFormed(ALPHABET, regex0)
    /\ NfaBuilt => WellFormed(ALPHABET, regex0) /\ st_top = 1 /\ Len(nfa) >= 2

C8_Witness == pc = "nfa_to_dfa" /\ st_top = 1 /\ Len(post) >= 4 /\ \E i \in 1..Len(regex0) : regex0[i] = 40

\* the orderings of a sequence of distinct symbols
Orderings(s) ==
    {[i \in 1..Len(s) |-> s[f[i]]] :
        f \in {g \in [1..Len(s) -> 1..Len(s)] : \A i, j \in 1..Len(s) : i /= j => g[i] /= g[j]}}

SameLanguage(d1, d2, ALPH) == \A w \in Words(ALPH) : Accepts(d1, w) <=> Accepts(d2, w)

\* C11: for every accepted pattern and every other ordering of its alphabet,
\* the DFA emitted for that ordering has as many states as the one emitted
\* and accepts the same strings (of length <= MaxW).
C11_OrderIndependent ==
    Succeeded =>
        \A al \in Orderings(ALPHABET) :
            LET o2 == compile(al, regex0) IN
            /\ o2.err = ""
            /\ o2.out.states = out.states
            /\ SameLanguage(out, o2.out, ALPHABET)

\* the states listed in block i (0-based) of P
BlockSet(i) == {P[i + 1][k] : k \in 1..Len(P[i + 1])}

\* C14: in every state of the refinement loop the blocks are non-empty,
\* pairwise disjoint (and list no state twice) and cover the N states of the
\* complete DFA, and cls[s] is the index of the block that holds s; on return
\* min_n is the number of blocks and every id in [0, min_n) has a
\* representative.
C14_ClassMap ==
    /\ (Refining \/ (Minimized /\ Len(P) > 0)) =>
          /\ \A i \in 0..(Len(P) - 1) :
                /\ Len(P[i + 1]) >= 1
                /\ Cardinality(BlockSet(i)) = Len(P[i + 1])
          /\ \A i, j \in 0..(Len(P) - 1) : i /= j => BlockSet(i) \cap BlockSet(j) = {}
          /\ UNION {BlockSet(i) : i \in 0..(Len(P) - 1)} = 0..(calc_N(dfa) - 1)
          /\ Len(cls) = calc_N(dfa)
          /\ \A s \in 0..(calc_N(dfa) - 1) : cls[s + 1] \in 0..(Len(P) - 1) /\ s \in BlockSet(cls[s + 1])
    /\ Minimized =>
          /\ Len(P) > 0 => min_n = Len(P)
          /\ Len(cls) = calc_N(dfa)
          /\ \A s \in 1..Len(cls) : cls[s] \in 0..(min_n - 1)
          /\ \A c \in 0..(min_n - 1) : calc_rep(cls, c) >= 0

C14_Witness ==
    /\ Minimized /\ min_n >= 4 /\ Len(P) = min_n
    /\ \E i \in 1..Len(P) : Len(P[i]) >= 2

\* C15: when dfa_minimize has returned, the partition is stable: any two
\* states of one class go, on every symbol, into one and the same class, so
\* the row read off the representative of a class is the row of each member.
C15_Stable ==
    Minimized =>
        \A s, t \in 1..Len(cls) :
            cls[s] = cls[t] =>
                \A x \in 1..Len(ALPHABET) : cls[T[s][x] + 1] = cls[T[t][x] + 1]

\* a step that splits block yi' - 1 into Y1 (same id) and Y2 (id Len(P))
SplitStep == Len(P) >= 2 /\ Len(P') = Len(P) + 1

\* W after such a step, with the id `tie` pushed when |Y1| = |Y2|
WorklistRule(tie) ==
    LET y == yi' - 1
        newi == Len(P)
        n1 == Len(P'[y + 1])
        n2 == Len(P'[newi + 1]) IN
    IF \E w \in 1..Len(W) : W[w] = y
    THEN W' = Append(W, newi)
    ELSE W' = Append(W, IF n1 < n2 THEN y ELSE IF n2 < n1 THEN newi ELSE tie)

\* C16 as stated: on a split, if Y's id is in W it stays and the new id is
\* added; otherwise the id of the smaller half is added, the new id on a tie.
C16_Original == [][SplitStep => WorklistRule(Len(P))]_vars

\* C16: on a split, if Y's id is in W it stays and the new id is added;
\* otherwise the id of the smaller half is added, and Y's own id (Y1's) when
\* the two halves have the same size.
C16_Worklist == [][SplitStep => WorklistRule(yi' - 1)]_vars

\* just after a split into two halves of the same size of a block not in W
C16_Witness ==
    /\ pc = "hop_sym" /\ yi >= 1 /\ Len(P) >= 3
    /\ Len(P[yi]) = Len(P[Len(P)])
    /\ W /= <<>> /\ Last(W) = yi - 1

\* The runs followed to their end: the scenario runs, the bad command lines
\* and files, and every pattern of at most MaxLivePat pieces.
LiveInputs ==
    BadRuns
    \cup {Run(3, TRUE, <<Flatten(ps), al>>) : ps \in SeqsUpTo(PatPieces, MaxLivePat), al \in AlphaLines}
    \cup {Run(3, TRUE, <<sc[1], sc[2]>>) : sc \in ScenarioRuns}

InitLive == InitWith(LiveInputs)

\* The program is sequential: a statement of the refinement loop that can run
\* does run.
HopFair == WF_vars(HopPop) /\ WF_vars(HopSplit) /\ WF_vars(HopNextSym) /\ WF_vars(MinimizeEnd)

SpecLive == InitLive /\ [][Next]_vars /\ HopFair

\* C18: the refinement loop terminates: once entered, W eventually is empty
\* and dfa_minimize returns; the number of blocks never exceeds N; inside the
\* loop an id is pushed onto W only by a step that splits a block, and one id
\* per split.
C18_Terminates ==
    /\ [](Refining => Len(P) <= calc_N(dfa))
    /\ [][(Refining /\ Len(W') > Len(W)) => (SplitStep /\ Len(W') = Len(W) + 1)]_vars
    /\ (Refining ~> (pc = "open_out" /\ W = <<>>))

C18_Witness == pc = "open_out" /\ W = <<>> /\ Len(P) >= 5 /\ min_n = Len(P)

(* ------------------------------------------------------------------ *)
(* Subset construction                                                 *)
(* ------------------------------------------------------------------ *)
\* the NFA states one epsilon edge away from a state of S
EpsStep(n, S) == UNION {{n[s + 1][j].to : j \in {k \in 1..Len(n[s + 1]) : n[s + 1][k].sym = 0}} : s \in S}

\* the least set that holds S and is closed under epsilon edges
RECURSIVE EpsClosed(_, _)
EpsClosed(n, S) ==
    LET S2 == S \cup EpsStep(n, S) IN
    IF S2 = S THEN S ELSE EpsClosed(n, S2)

\* Move(d, c): the NFA states an edge on c leads to from the set of d
MoveOf(n, S, c) == {t \in 0..(Len(n) - 1) : \E s \in S : \E j \in 1..Len(n[s + 1]) :
                        n[s + 1][j].sym = c /\ n[s + 1][j].to = t}

\* the cells of the table row by row, symbols in declared order
CellsInOrder(d, k) == [i \in 1..(Len(d) * k) |-> d[((i - 1) \div k) + 1].trans[((i - 1) % k) + 1]]

SubsetBuilt == pc \in {"minimize", "hop_loop", "hop_sym", "open_out", "write_out"} \/ (pc = "exit" /\ dfa /= <<>>)

\* C19: after subset construction state 0 holds the epsilon closure of the
\* NFA start state, no two states hold the same set, a state is accepting iff
\* its set holds the NFA accept state, a cell is missing iff Move is empty and
\* otherwise is the state whose set is the closure of Move, and the states are
\* numbered in the order the row-by-row scan of the table first names them.
C19_SubsetConstruction ==
    SubsetBuilt =>
        LET k == Len(ALPHABET)
            cells == CellsInOrder(dfa, k) IN
        /\ Len(dfa) >= 1
        /\ dfa[1].set = EpsClosed(nfa, {frag.start})
        /\ \A i, j \in 1..Len(dfa) : dfa[i].set = dfa[j].set => i = j
        /\ \A i \in 1..Len(dfa) : dfa[i].is_accept <=> (frag.accept \in dfa[i].set)
        /\ \A i \in 1..Len(dfa) : \A x \in 1..k :
              LET mv == MoveOf(nfa, dfa[i].set, ALPHABET[x])
                  t == dfa[i].trans[x] IN
              /\ (t = -1) <=> (mv = {})
              /\ mv /= {} => (t \in 0..(Len(dfa) - 1) /\ dfa[t + 1].set = EpsClosed(nfa, mv))
        /\ \A id \in 1..(Len(dfa) - 1) : \E i \in 1..Len(cells) :
              /\ cells[i] = id
              /\ i <= id * k
              /\ \A j \in 1..(i - 1) : cells[j] < id
              /\ \A id2 \in 1..(id - 1) : \E j \in 1..(i - 1) : cells[j] = id2

\* a table with a missing cell, a cell that names an earlier state again, and
\* a set that the closure made larger than Move
C19_Witness ==
    /\ pc = "minimize"
    /\ Len(dfa) >= 4
    /\ \E i \in 1..Len(dfa) : \E x \in 1..Len(ALPHABET) : dfa[i].trans[x] = -1
    /\ \E i \in 1..Len(dfa) : \E x \in 1..Len(ALPHABET) :
          /\ dfa[i].trans[x] >= 0 /\ dfa[i].trans[x] < i - 1
          /\ MoveOf(nfa, dfa[i].set, ALPHABET[x]) /= dfa[dfa[i].trans[x] + 1].set

(* ------------------------------------------------------------------ *)
(* dfa_minimize with line 501 free to take any id of W, not only the     *)
(* last: the loop body of lines 503-543 is the code's                    *)
(* ------------------------------------------------------------------ *)
remove_at(Ww, i) == SubSeq(Ww, 1, i - 1) \o SubSeq(Ww, i + 1, Len(Ww))

HopPopAny ==
    /\ pc = "hop_loop"
    /\ \E i \in 1..Len(W) :
         /\ Ablock' = W[i]
         /\ W' = remove_at(W, i)
         /\ mark' = calc_mark(T, P, W[i], 1)
    /\ a' = 0
    /\ yi' = 0
    /\ goto("hop_sym")
    /\ UNCHANGED <<inVars, frontVars, nfaVars, dfa, need_dead, dead, T, A, P, cls, min_n, outVars>>
    /\ UNCHANGED <<stepVars, cmpVars, tblVars>>

NextAnyPop ==
    \/ ReadInput
    \/ ParseAlphabet
    \/ Preprocess
    \/ CheckSymbols
    \/ CheckParens
    \/ AddConcat
    \/ ToPostfix
    \/ PostfixToNfa
    \/ NfaToDfa
    \/ MinimizeStart
    \/ HopPopAny
    \/ HopSplit
    \/ HopNextSym
    \/ MinimizeEnd

SpecAnyPop == Init /\ [][NextAnyPop]_vars

BlocksOf(Pp) == {{Pp[i][k] : k \in 1..Len(Pp[i])} : i \in 1..Len(Pp)}

\* C17: whatever id of W is taken next, the loop ends with the set of blocks
\* that the code's last-in-first-out order ends with.
C17_PopOrder ==
    (pc = "open_out" /\ Len(P) > 0) => BlocksOf(P) = BlocksOf(dfa_minimize(ALPHABET, dfa).P)

(* ------------------------------------------------------------------ *)
(* The alphabet line on its own: every kind of byte, and lines around   *)
(* the MAX_ALPHABET limit                                               *)
(* ------------------------------------------------------------------ *)
\* the sentinel, a tab, a control byte, the space, the separators , ; the
\* operators | + * ( ) . the punctuation : - > { } and the symbols a b 0xC8
AlphaBytes == {1, 9, 31, 32, 44, 59, 124, 43, 42, 40, 41, 46, 58, 45, 62, 123, 125, 97, 98, 200}

\* 128, 129 and 129-with-a-duplicate declared symbols
LongAlphaLines ==
    { Range(128, 255), Range(129, 255) \o <<97>>, Range(128, 255) \o <<97>>,
      <<97, 32>> \o Range(128, 255), Range(128, 255) \o <<44, 128>> }

AlphaInputs ==
    {Run(3, TRUE, <<PatAorB, al>>) : al \in SeqsUpTo(AlphaBytes, MaxAlphaLen) \cup LongAlphaLines}

InitAlpha == InitWith(AlphaInputs)

NextAlpha ==
    \/ ReadInput
    \/ ParseAlphabet

SpecAlpha == InitAlpha /\ [][NextAlpha]_vars

BadAlphabet ==
    { "alphabet is empty", "alphabet must not contain internal epsilon token",
      "alphabet contains meta-operator", "alphabet contains non-printable byte",
      "alphabet contains duplicate symbol", "alphabet too large" }

AlphabetParsed == pc = "preprocess" \/ (pc = "exit" /\ err \in BadAlphabet)

\* the bytes of an alphabet line that are not separators, in line order
Declared(line) ==
    LET kept == {p \in 1..Len(line) : ~(isspace(line[p]) \/ line[p] \in {44, 59})}
        nth(i) == CHOOSE p \in kept : Cardinality({q \in kept : q <= p}) = i
    IN [i \in 1..Cardinality(kept) |-> line[nth(i)]]

\* an alphabet of the data model, with the bytes it may not hold
ValidAlphabet(alpha, forbidden) ==
    /\ Len(alpha) \in 1..128
    /\ \A i, j \in 1..Len(alpha) : i /= j => alpha[i] /= alpha[j]
    /\ \A i \in 1..Len(alpha) :
         alpha[i] >= 32 /\ alpha[i] \notin forbidden /\ alpha[i] /= EPS_TOK

\* | + * ( ) . , ; : - > { }
DataModelForbidden == {124, 43, 42, 40, 41, 46, 44, 59, 58, 45, 62, 123, 125}

\* | + * ( ) .
CompilerForbidden == {124, 43, 42, 40, 41, 46}

AlphabetContract(forbidden) ==
    AlphabetParsed =>
        /\ (pc = "preprocess") = ValidAlphabet(Declared(line_alpha), forbidden)
        /\ pc = "preprocess" => ALPHABET = Declared(line_alpha) /\ ValidAlphabet(ALPHABET, forbidden)

\* C9 as stated: an accepted alphabet has 1..128 distinct symbols >= 32, none
\* of | + * ( ) . , ; : - > { } nor the sentinel, in declared order, and every
\* other line fails with a BadAlphabet error.
C9_Original == AlphabetContract(DataModelForbidden)

\* C9: an accepted alphabet has 1..128 distinct symbols >= 32, none of
\* | + * ( ) . nor the sentinel (a comma or semicolon is a separator, never a
\* symbol), in declared order, and every other line fails with a BadAlphabet
\* error; : - > { } are accepted as symbols.
C9_AlphabetAccepted == AlphabetContract(CompilerForbidden)

C9_Witness == pc = "preprocess" /\ Len(ALPHABET) = 2 /\ ALPHABET[2] = 58

(* ------------------------------------------------------------------ *)
(* The lexer on its own: patterns over every kind of byte               *)
(* ------------------------------------------------------------------ *)
\* a, c, 0xC8, 0xC9, UTF-8 epsilon, a lone 0xCE, '.', '|', '*', '(', ')',
\* a space, <eps>, a lone '<', the raw sentinel
LexPieces ==
    { <<97>>, <<99>>, <<200>>, <<201>>, <<206, 181>>, <<206>>, <<46>>, <<124>>, <<42>>,
      <<40>>, <<41>>, <<32>>, EpsAscii, <<60>>, <<1>> }

\* "a", "a" with 0xC8, "a" with '<'
LexAlphaLines == {<<97>>, <<97, 200>>, <<97, 60>>}

LexInputs ==
    {Run(3, TRUE, <<Flatten(ps), al>>) : ps \in SeqsUpTo(LexPieces, MaxLexLen), al \in LexAlphaLines}

InitLex == InitWith(LexInputs)

NextLex ==
    \/ ReadInput
    \/ ParseAlphabet
    \/ Preprocess
    \/ CheckSymbols

SpecLex == InitLex /\ [][NextLex]_vars

NonAscii == "regex contains non-ASCII byte"

BadPattern == {"regex must not contain explicit '.'", NonAscii, "regex contains invalid character"}

SymbolsChecked == pc = "check_parens" \/ (pc = "exit" /\ err \in BadPattern)

\* the positions of regex0 that hold neither an alphabet symbol, nor one of
\* | + * ( ), nor the sentinel
Offending ==
    {i \in 1..Len(regex0) :
        /\ ~is_alphabet_symbol(ALPHABET, regex0[i])
        /\ regex0[i] \notin {124, 43, 42, 40, 41}
        /\ regex0[i] /= EPS_TOK}

FirstOffending == CHOOSE i \in Offending : \A j \in Offending : i <= j

\* C10 as stated: after preprocessing, a pattern that still holds a byte >= 128
\* is rejected with the non-ASCII error, whatever the accepted alphabet, and a
\* pattern with an offending byte is rejected.
C10_Original ==
    SymbolsChecked =>
        /\ (\E i \in 1..Len(regex0) : regex0[i] >= 128) => (pc = "exit" /\ err = NonAscii)
        /\ Offending /= {} => pc = "exit"

\* C10: after preprocessing, a pattern is rejected iff it holds a byte that is
\* neither an alphabet symbol, nor one of | + * ( ), nor the sentinel; the
\* error is the non-ASCII one iff the first such byte is >= 128. A byte >= 128
\* that the alphabet declares is a symbol like any other.
C10_PatternBytes ==
    SymbolsChecked =>
        /\ (Offending /= {}) = (pc = "exit")
        /\ Offending /= {} => ((err = NonAscii) = (regex0[FirstOffending] >= 128))

C10_Witness ==
    /\ pc = "exit" /\ err = NonAscii
    /\ \E i \in 1..Len(ALPHABET) : ALPHABET[i] >= 128
    /\ \E i \in 1..Len(regex0) : is_alphabet_symbol(ALPHABET, regex0[i]) /\ regex0[i] >= 128

(* ------------------------------------------------------------------ *)
(* The hard limits, with the two construction loops a pass at a time   *)
(* ------------------------------------------------------------------ *)
\* a followed by n stars: two NFA states for a, two more for each star
StarsPat(n) == <<97>> \o [i \in 1..n |-> 42]

\* (a|b)*a(a|b)...(a|b): the subset construction needs 2^(n+1) states
BlowUpPat(n) == <<40, 97, 124, 98, 41, 42, 97>> \o Flatten([i \in 1..n |-> <<40, 97, 124, 98, 41>>])

\* the same with the concatenation dots, and in postfix
BlowUpDotted(n) == <<40, 97, 124, 98, 41, 42, 46, 97>> \o Flatten([i \in 1..n |-> <<46, 40, 97, 124, 98, 41>>])

BlowUpPostfix(n) == <<97, 98, 124, 42, 97, 46>> \o Flatten([i \in 1..n |-> <<97, 98, 124, 46>>])

\* a number of (a|b) that makes the subset construction ask for state 4097
TooManyBits == 11

\* the number of stars whose last one asks for NFA states 4097 and 4098
TooManyStars == MAX_NFA_STATES \div 2

LimitInputs ==
    LiveInputs
    \cup {Run(3, TRUE, <<PatAorB, al>>) : al \in LongAlphaLines}
    \cup {Run(3, TRUE, <<StarsPat(3), AlphaA>>), Run(3, TRUE, <<BlowUpPat(2), AlphaAB>>)}

\* main() at the call of postfix_to_nfa on pattern pat, given what
\* add_concat_ops and to_postfix make of it
AtPostfixToNfa(pat, al, dotted, postfix) ==
    /\ argc = 3 /\ infile = [ok |-> TRUE, lines |-> <<pat, al>>]
    /\ pc = "postfix_to_nfa"
    /\ line_regex = fgets(pat) /\ line_alpha = fgets(al)
    /\ ALPHABET = al
    /\ regex0 = pat /\ regex1 = dotted /\ post = postfix
    /\ nfa = <<>> /\ frag = [start |-> -1, accept |-> -1] /\ st_top = 0
    /\ dfa = <<>>
    /\ need_dead = FALSE /\ dead = -1
    /\ T = <<>> /\ A = <<>> /\ P = <<>> /\ cls = <<>> /\ W = <<>>
    /\ Ablock = -1 /\ a = 0 /\ yi = 0 /\ mark = {}
    /\ min_n = 0
    /\ outfile = "untouched" /\ out = NoOut
    /\ exit_code = -1 /\ err = ""
    /\ alpha_i = Len(line_alpha)
    /\ nfa_i = 0 /\ nfa_st = <<>> /\ dfa_q = <<>> /\ dfa_qh = 0 /\ dfa_ai = 0

\* a**...* passes the front end byte for byte
AtStars(n) == AtPostfixToNfa(StarsPat(n), AlphaA, StarsPat(n), StarsPat(n))

AtBlowUp(n) == AtPostfixToNfa(BlowUpPat(n), AlphaAB, BlowUpDotted(n), BlowUpPostfix(n))

InitLimits ==
    \/ InitWith(LimitInputs)
    \/ AtStars(TooManyStars) /\ CmpIdle /\ TblIdle
    \/ AtBlowUp(TooManyBits) /\ CmpIdle /\ TblIdle

NextLimits ==
    \/ ReadInput
    \/ AlphaBegin
    \/ AlphaByte
    \/ AlphaEnd
    \/ Preprocess
    \/ CheckSymbols
    \/ CheckParens
    \/ AddConcat
    \/ ToPostfix
    \/ NfaBegin
    \/ NfaToken
    \/ NfaEnd
    \/ SubsetBegin
    \/ SubsetCell
    \/ SubsetEnd
    \/ MinimizeStart
    \/ HopPop
    \/ HopSplit
    \/ HopNextSym
    \/ MinimizeEnd
    \/ OpenOutput
    \/ WriteOutput

SpecLimits == InitLimits /\ [][NextLimits]_vars

\* the token at nfa_i allocates: a symbol, the epsilon token, or an operator
\* other than the concatenation dot with its operands on the stack
Allocates ==
    /\ pc = "nfa_loop" /\ nfa_i < Len(post)
    /\ LET c == post[nfa_i + 1] IN
       \/ c = EPS_TOK \/ \E x \in 1..Len(ALPHABET) : ALPHABET[x] = c
       \/ c \in {124, 43} /\ Len(nfa_st) >= 2
       \/ c = 42 /\ Len(nfa_st) >= 1

\* the cell at (dfa_qh, dfa_ai) leads to a set no state holds yet
Discovers ==
    /\ pc = "subset_loop" /\ dfa_qh < Len(dfa_q)
    /\ LET mv == MoveOf(nfa, dfa[dfa_q[dfa_qh + 1] + 1].set, ALPHABET[dfa_ai + 1])
           cl == EpsClosed(nfa, mv) IN
       mv /= {} /\ \A i \in 1..Len(dfa) : dfa[i].set /= cl

\* the closure the next pass of the subset construction computes
NextClosure ==
    IF pc = "nfa_to_dfa" THEN eps_closure_run(nfa, {frag.start})
    ELSE IF pc = "subset_loop" /\ dfa_qh < Len(dfa_q)
    THEN eps_closure_run(nfa, move_on_symbol(nfa, dfa[dfa_q[dfa_qh + 1] + 1].set, ALPHABET[dfa_ai + 1]))
    ELSE [out |-> {}, q |-> <<>>]

\* the first 129 declared symbols pass every other test of the alphabet line
OneTooMany(decl) ==
    /\ Len(decl) > MAX_ALPHABET
    /\ \A i \in 1..(MAX_ALPHABET + 1) :
          /\ decl[i] >= 32 /\ decl[i] \notin CompilerForbidden /\ decl[i] /= EPS_TOK
          /\ \A j \in 1..(i - 1) : decl[j] /= decl[i]

Fatal(msg) == pc' = "exit" /\ exit_code' = 1 /\ err' = msg

\* the run on a**...* leaves postfix_to_nfa only by the error, with the array full
StarsRunEnds ==
    infile.lines = <<StarsPat(TooManyStars), AlphaA>> =>
        \/ pc \in {"postfix_to_nfa", "nfa_loop"}
        \/ /\ pc = "exit" /\ exit_code = 1 /\ err = "too many NFA states"
           /\ Len(nfa) = MAX_NFA_STATES /\ nfa_i = TooManyStars

\* the run on (a|b)*a(a|b)...(a|b) leaves nfa_to_dfa only by the error, with
\* the array and the queue full
BlowUpRunEnds ==
    infile.lines = <<BlowUpPat(TooManyBits), AlphaAB>> =>
        \/ pc \in {"postfix_to_nfa", "nfa_loop", "nfa_to_dfa", "subset_loop"}
        \/ /\ pc = "exit" /\ exit_code = 1 /\ err = "too many DFA states"
           /\ Len(dfa) = MAX_DFA_STATES /\ Len(dfa_q) = MAX_DFA_STATES

\* C20: the alphabet never holds more than 128 symbols, the NFA never more
\* than 4096 states, the DFA never more than 4096 states; the queue of the
\* subset construction never holds more than the MAX_DFA_STATES entries it
\* was allocated, the queue of eps_closure never more than nfa_states; a 129th
\* symbol, a 4097th NFA state and a 4097th DFA state each end the run with
\* the fatal error, and those errors are raised nowhere else. The two long
\* runs start at postfix_to_nfa, in the state the front end reaches on the
\* same patterns of up to three repetitions.
C20_HardLimits ==
    /\ [](/\ Len(ALPHABET) <= MAX_ALPHABET
          /\ Len(nfa) <= MAX_NFA_STATES
          /\ Len(dfa) <= MAX_DFA_STATES
          /\ Len(dfa_q) <= MAX_DFA_STATES
          /\ Len(NextClosure.q) <= Len(nfa)
          /\ AlphabetParsed => (err = "alphabet too large" <=> OneTooMany(Declared(line_alpha)))
          /\ err = "alphabet too large" =>
                (pc = "exit" /\ exit_code = 1 /\ ALPHABET = SubSeq(Declared(line_alpha), 1, MAX_ALPHABET))
          /\ \A n \in 0..3 :
                /\ (pc = "postfix_to_nfa" /\ infile.lines = <<StarsPat(n), AlphaA>>) => AtStars(n)
                /\ (pc = "postfix_to_nfa" /\ infile.lines = <<BlowUpPat(n), AlphaAB>>) => AtBlowUp(n)
          /\ StarsRunEnds
          /\ BlowUpRunEnds)
    /\ [][/\ (Allocates /\ Len(nfa) >= MAX_NFA_STATES) => Fatal("too many NFA states")
          /\ (Discovers /\ Len(dfa) >= MAX_DFA_STATES) => Fatal("too many DFA states")
          /\ err' = "too many NFA states" => (Allocates /\ Len(nfa) = MAX_NFA_STATES /\ nfa' = nfa)
          /\ err' = "too many DFA states" => (Discovers /\ Len(dfa) = MAX_DFA_STATES /\ dfa' = dfa)]_vars

\* the run that declared a 129th symbol, with the array full
C20_Witness ==
    /\ pc = "exit" /\ exit_code = 1 /\ err = "alphabet too large"
    /\ Len(ALPHABET) = MAX_ALPHABET /\ alpha_i < Len(line_alpha)

(* ------------------------------------------------------------------ *)
(* dfa_checker.c: the comparator.                                        *)
(* A .dfa file is the sequence of its whitespace-separated tokens, each  *)
(* a sequence of bytes, as fscanf("%d") and fscanf("%s") read them.      *)
(* ------------------------------------------------------------------ *)
\* fprintf("%d")
RECURSIVE itoa(_)
itoa(n) ==
    IF n < 0 THEN <<45>> \o itoa(0 - n)
    ELSE IF n < 10 THEN <<48 + n>>
    ELSE itoa(n \div 10) \o <<48 + (n % 10)>>

\* fscanf("%d") converts the token: an optional '-' and decimal digits
is_int(tok) ==
    LET ds == IF Len(tok) >= 1 /\ tok[1] = 45 THEN Tail(tok) ELSE tok IN
    Len(ds) >= 1 /\ \A i \in 1..Len(ds) : ds[i] \in 48..57

RECURSIVE atoi_digits(_, _)
atoi_digits(ds, acc) ==
    IF ds = <<>> THEN acc ELSE atoi_digits(Tail(ds), 10 * acc + (Head(ds) - 48))

atoi(tok) == IF tok[1] = 45 THEN 0 - atoi_digits(Tail(tok), 0) ELSE atoi_digits(tok, 0)

KwALPHABET == <<65, 76, 80, 72, 65, 66, 69, 84>>

KwSTATES == <<83, 84, 65, 84, 69, 83>>

KwSTART == <<83, 84, 65, 82, 84>>

KwACCEPT == <<65, 67, 67, 69, 80, 84>>

KwTRANS == <<84, 82, 65, 78, 83>>

KwEND == <<69, 78, 68>>

\* the tokens of the text write_min_dfa prints, END left out
dfa_file_no_end(o) ==
    <<KwALPHABET, itoa(o.k), o.symbols, KwSTATES, itoa(o.states), KwSTART, itoa(o.start),
      KwACCEPT, itoa(Len(o.accept))>>
    \o [i \in 1..Len(o.accept) |-> itoa(o.accept[i])]
    \o <<KwTRANS>>
    \o [i \in 1..(o.states * o.k) |-> itoa(o.rows[((i - 1) \div o.k) + 1][((i - 1) % o.k) + 1])]

\* the tokens of the text write_min_dfa prints (the symbols hold no whitespace:
\* parse_alphabet_line skips it)
dfa_file(o) ==
    <<KwALPHABET, itoa(o.k), o.symbols, KwSTATES, itoa(o.states), KwSTART, itoa(o.start),
      KwACCEPT, itoa(Len(o.accept))>>
    \o [i \in 1..Len(o.accept) |-> itoa(o.accept[i])]
    \o <<KwTRANS>>
    \o [i \in 1..(o.states * o.k) |-> itoa(o.rows[((i - 1) \div o.k) + 1][((i - 1) % o.k) + 1])]
    \o <<KwEND>>

\* expect_token
expect_token(t, i, tok) ==
    IF i > Len(t) THEN "unexpected EOF while reading DFA"
    ELSE IF t[i] /= tok THEN "bad DFA format: unexpected header token"
    ELSE ""

has_int(t, i) == i <= Len(t) /\ is_int(t[i])

bad_read(msg) == [err |-> msg, d |-> NoDFA]

\* the first position in lo..hi that holds no number, or a number outside
\* 0..n-1; 0 if there is none
first_bad(t, lo, hi, n) ==
    LET bad == {i \in lo..hi : ~has_int(t, i) \/ atoi(t[i]) < 0 \/ atoi(t[i]) >= n} IN
    IF bad = {} THEN 0 ELSE CHOOSE i \in bad : \A j \in bad : i <= j

\* dfa_read from the accept list on: m numbers, TRANS, n*k numbers, END, the
\* duplicate test
dfa_read_tables(t, k, n, start, m) ==
    LET ba == first_bad(t, 10, 9 + m, n)
        e5 == expect_token(t, 10 + m, KwTRANS)
        bt == first_bad(t, 11 + m, 10 + m + n * k, n)
        e6 == expect_token(t, 11 + m + n * k, KwEND) IN
    IF ba /= 0
    THEN bad_read(IF has_int(t, ba) THEN "bad DFA format: accepting state out of range"
                  ELSE "bad DFA format: accept list")
    ELSE IF e5 /= "" THEN bad_read(e5)
    ELSE IF bt /= 0
    THEN bad_read(IF has_int(t, bt) THEN "bad DFA format: transition out of range"
                  ELSE "bad DFA format: transition table")
    ELSE IF e6 /= "" THEN bad_read(e6)
    ELSE IF \E i, j \in 1..k : i /= j /\ t[3][i] = t[3][j]
    THEN bad_read("bad DFA: duplicate symbol in alphabet")
    ELSE [err |-> "",
          d |-> [k |-> k, alphabet |-> t[3], n |-> n, start |-> start,
                 acc |-> [s \in 1..n |-> \E i \in 10..(9 + m) : atoi(t[i]) = s - 1],
                 trans |-> [s \in 1..n |-> [x \in 1..k |-> atoi(t[10 + m + (s - 1) * k + x])]]]]

\* dfa_read of the file f = [ok, by, toks]; by names who wrote the file
dfa_read(f) ==
    LET t == f.toks IN
    IF ~f.ok THEN bad_read("cannot open DFA file")
    ELSE IF expect_token(t, 1, KwALPHABET) /= "" THEN bad_read(expect_token(t, 1, KwALPHABET))
    ELSE IF ~has_int(t, 2) THEN bad_read("bad DFA format: alphabet size")
    ELSE IF atoi(t[2]) <= 0 \/ atoi(t[2]) > MAX_ALPHABET THEN bad_read("bad DFA format: alphabet size range")
    ELSE IF Len(t) < 3 THEN bad_read("bad DFA format: alphabet string")
    ELSE IF Len(t[3]) /= atoi(t[2]) THEN bad_read("bad DFA format: alphabet string length mismatch")
    ELSE IF expect_token(t, 4, KwSTATES) /= "" THEN bad_read(expect_token(t, 4, KwSTATES))
    ELSE IF ~has_int(t, 5) THEN bad_read("bad DFA format: states")
    ELSE IF atoi(t[5]) <= 0 THEN bad_read("bad DFA format: states must be positive")
    ELSE IF expect_token(t, 6, KwSTART) /= "" THEN bad_read(expect_token(t, 6, KwSTART))
    ELSE IF ~has_int(t, 7) THEN bad_read("bad DFA format: start")
    ELSE IF atoi(t[7]) < 0 \/ atoi(t[7]) >= atoi(t[5]) THEN bad_read("bad DFA format: start out of range")
    ELSE IF expect_token(t, 8, KwACCEPT) /= "" THEN bad_read(expect_token(t, 8, KwACCEPT))
    ELSE IF ~has_int(t, 9) THEN bad_read("bad DFA format: accept count")
    ELSE IF atoi(t[9]) < 0 \/ atoi(t[9]) > atoi(t[5]) THEN bad_read("bad DFA format: accept count range")
    ELSE dfa_read_tables(t, atoi(t[2]), atoi(t[5]), atoi(t[7]), atoi(t[9]))

same_alphabet(d1, d2) == d1.k = d2.k /\ d1.alphabet = d2.alphabet

\* alph_index, 0-based; -1 if c is not a symbol
alph_index(d, c) ==
    IF \E i \in 1..d.k : d.alphabet[i] = c
    THEN (CHOOSE i \in 1..d.k : d.alphabet[i] = c /\ \A j \in 1..(i - 1) : d.alphabet[j] /= c) - 1
    ELSE -1

RECURSIVE run_dfa_from(_, _, _)
run_dfa_from(d, st, w) ==
    IF w = <<>> THEN (IF d.acc[st + 1] THEN 1 ELSE 0)
    ELSE IF alph_index(d, Head(w)) < 0 THEN -1
    ELSE run_dfa_from(d, d.trans[st + 1][alph_index(d, Head(w)) + 1], Tail(w))

\* run_dfa: 1 accept, 0 reject, -1 a byte outside the alphabet
run_dfa(d, w) == run_dfa_from(d, d.start, w)

RECURSIVE trim_newline(_)
trim_newline(l) ==
    IF l /= <<>> /\ Last(l) \in {10, 13} THEN trim_newline(Front(l)) ELSE l

\* while(*p && isspace(*p)) p++, from position p; Len(l) + 1 is the terminator
RECURSIVE skip_space(_, _)
skip_space(l, p) == IF p <= Len(l) /\ isspace(l[p]) THEN skip_space(l, p + 1) ELSE p

\* while(*p && !isspace(*p)) p++
RECURSIVE skip_token(_, _)
skip_token(l, p) == IF p <= Len(l) /\ ~isspace(l[p]) THEN skip_token(l, p + 1) ELSE p

\* lines 194-228: what one trimmed line asks for
test_line(l) ==
    LET p0 == skip_space(l, 1) IN
    IF p0 > Len(l) \/ l[p0] = 35 THEN [kind |-> "skip", label |-> -1, w |-> <<>>]
    ELSE IF l[p0] \notin {48, 49} THEN [kind |-> "label", label |-> -1, w |-> <<>>]
    ELSE LET p1 == skip_space(l, p0 + 1) IN
         IF p1 > Len(l) THEN [kind |-> "missing", label |-> l[p0] - 48, w |-> <<>>]
         ELSE LET tok == SubSeq(l, p1, skip_token(l, p1) - 1) IN
              [kind |-> "test", label |-> l[p0] - 48, w |-> IF tok = EpsAscii THEN <<>> ELSE tok]

\* check_line with a label that differs from the reference treated as a failure
check_line_label_fails(rd, ud, tl) ==
    LET rref == run_dfa(rd, tl.w)
        rusr == run_dfa(ud, tl.w) IN
    IF tl.kind = "skip" THEN [exit |-> -1, msg |-> "", counted |-> FALSE, warn |-> FALSE]
    ELSE IF tl.kind = "label" THEN [exit |-> 1, msg |-> "label must be 0 or 1", counted |-> FALSE, warn |-> FALSE]
    ELSE IF tl.kind = "missing" THEN [exit |-> 1, msg |-> "missing string token", counted |-> FALSE, warn |-> FALSE]
    ELSE IF rref < 0 \/ rusr < 0
    THEN [exit |-> 1, msg |-> "string contains symbol not in alphabet", counted |-> FALSE, warn |-> FALSE]
    ELSE IF rref /= rusr \/ rref /= tl.label THEN [exit |-> 2, msg |-> "FAIL", counted |-> TRUE, warn |-> FALSE]
    ELSE [exit |-> -1, msg |-> "", counted |-> TRUE, warn |-> FALSE]

\* lines 196-254: the outcome of one line; exit -1 means the loop goes on
check_line(rd, ud, tl) ==
    LET rref == run_dfa(rd, tl.w)
        rusr == run_dfa(ud, tl.w) IN
    IF tl.kind = "skip" THEN [exit |-> -1, msg |-> "", counted |-> FALSE, warn |-> FALSE]
    ELSE IF tl.kind = "label" THEN [exit |-> 1, msg |-> "label must be 0 or 1", counted |-> FALSE, warn |-> FALSE]
    ELSE IF tl.kind = "missing" THEN [exit |-> 1, msg |-> "missing string token", counted |-> FALSE, warn |-> FALSE]
    ELSE IF rref < 0 \/ rusr < 0
    THEN [exit |-> 1, msg |-> "string contains symbol not in alphabet", counted |-> FALSE, warn |-> FALSE]
    ELSE IF rref /= rusr THEN [exit |-> 2, msg |-> "FAIL", counted |-> TRUE, warn |-> FALSE]
    ELSE [exit |-> -1, msg |-> "", counted |-> TRUE, warn |-> rref /= tl.label]

cmp_die(code, msg) == cmp_pc' = "exit" /\ cmp_exit' = code /\ cmp_err' = msg

\* lines 168-184: the argc test, the two dfa_read calls, same_alphabet, fopen
CmpStart ==
    /\ cmp_pc = "main"
    /\ IF cmp_args.argc /= 4 THEN cmp_die(1, "usage") /\ UNCHANGED <<ref, usr>>
       ELSE LET r == dfa_read(cmp_args.ref) IN
            IF r.err /= "" THEN cmp_die(1, r.err) /\ UNCHANGED <<ref, usr>>
            ELSE LET u == dfa_read(cmp_args.usr) IN
                 IF u.err /= "" THEN cmp_die(1, u.err) /\ ref' = r.d /\ UNCHANGED usr
                 ELSE /\ ref' = r.d
                      /\ usr' = u.d
                      /\ IF ~same_alphabet(r.d, u.d) THEN cmp_die(2, "FAIL: alphabets differ")
                         ELSE IF ~cmp_args.tests.ok THEN cmp_die(1, "cannot open tests file")
                         ELSE cmp_pc' = "loop" /\ UNCHANGED <<cmp_exit, cmp_err>>
    /\ UNCHANGED <<cmp_args, line_no, total, warnings>>
    /\ UNCHANGED <<pc, inVars, frontVars, nfaVars, dfa, minVars, outVars, exit_code, err, stepVars, tblVars>>

\* one iteration of while(fgets(...)), lines 189-255
CmpLine ==
    /\ cmp_pc = "loop"
    /\ line_no < Len(cmp_args.tests.lines)
    /\ line_no' = line_no + 1
    /\ LET l == trim_newline(fgets(cmp_args.tests.lines[line_no + 1]))
           r == check_line(ref, usr, test_line(l)) IN
       /\ total' = total + (IF r.counted THEN 1 ELSE 0)
       /\ warnings' = (IF r.warn THEN Append(warnings, line_no') ELSE warnings)
       /\ IF r.exit >= 0 THEN cmp_die(r.exit, r.msg)
          ELSE UNCHANGED <<cmp_pc, cmp_exit, cmp_err>>
    /\ UNCHANGED <<cmp_args, ref, usr>>
    /\ UNCHANGED <<pc, inVars, frontVars, nfaVars, dfa, minVars, outVars, exit_code, err, stepVars, tblVars>>

\* fgets returns NULL: lines 257-261
CmpPass ==
    /\ cmp_pc = "loop"
    /\ line_no = Len(cmp_args.tests.lines)
    /\ cmp_die(0, "PASS")
    /\ UNCHANGED <<cmp_args, ref, usr, line_no, total, warnings>>
    /\ UNCHANGED <<pc, inVars, frontVars, nfaVars, dfa, minVars, outVars, exit_code, err, stepVars, tblVars>>

\* The .dfa files: the compiler's output for a|b, a*, a*a|bb over ab and for a
\* over a; a file cut short before TRANS; a file that cannot be opened.
EmittedFiles ==
    {[ok |-> TRUE, by |-> "compiler", toks |-> dfa_file(compile(in[1], in[2]).out)] :
        in \in { <<AlphaAB, PatAorB>>, <<AlphaAB, <<97, 42>> >>,
                 <<AlphaAB, <<97, 42, 97, 124, 98, 98>> >>, <<AlphaA, <<97>> >> }}

\* ALPHABET 2 ab STATES 3 START 1 ACCEPT 1 0, and nothing more
CutFile ==
    [ok |-> TRUE, by |-> "hand",
     toks |-> <<KwALPHABET, <<50>>, <<97, 98>>, KwSTATES, <<51>>, KwSTART, <<49>>, KwACCEPT, <<49>>, <<48>> >>]

MissingFile == [ok |-> FALSE, by |-> "hand", toks |-> <<>>]

\* "1 a", "0 a", "1 <eps>", "", "#1 a", "x a", "1", "0 c", " 0<TAB>b z<CR>", "1 abb"
TestLines ==
    { <<49, 32, 97>>, <<48, 32, 97>>, <<49, 32>> \o EpsAscii, <<>>, <<35, 49, 32, 97>>,
      <<120, 32, 97>>, <<49>>, <<48, 32, 99>>, <<32, 48, 9, 98, 32, 122, 13>>,
      <<49, 32, 97, 98, 98>> }

TestFiles == {[ok |-> TRUE, lines |-> ls] : ls \in SeqsUpTo(TestLines, MaxTests)}

CmpInputs ==
    {[argc |-> 4, ref |-> r, usr |-> u, tests |-> t] : r \in EmittedFiles, u \in EmittedFiles, t \in TestFiles}
    \cup {[argc |-> n, ref |-> r, usr |-> r, tests |-> [ok |-> FALSE, lines |-> <<>>]] :
             n \in {3, 4}, r \in EmittedFiles}
    \cup {[argc |-> 4, ref |-> r, usr |-> u, tests |-> [ok |-> TRUE, lines |-> << <<49, 32, 97>> >>]] :
             r \in {CutFile, MissingFile}, u \in EmittedFiles}
    \cup {[argc |-> 4, ref |-> r, usr |-> u, tests |-> [ok |-> TRUE, lines |-> << <<49, 32, 97>> >>]] :
             r \in EmittedFiles, u \in {CutFile, MissingFile}}

InitCmp ==
    /\ argc = 0 /\ infile = [ok |-> FALSE, lines |-> <<>>]
    /\ CompilerAt("idle")
    /\ cmp_args \in CmpInputs
    /\ cmp_pc = "main"
    /\ ref = NoDFA /\ usr = NoDFA
    /\ line_no = 0 /\ total = 0 /\ warnings = <<>>
    /\ cmp_exit = -1 /\ cmp_err = ""
    /\ TblIdle

NextCmp ==
    \/ CmpStart
    \/ CmpLine
    \/ CmpPass

SpecCmp == InitCmp /\ [][NextCmp]_vars

(* ------------------------------------------------------------------ *)
(* The tests file read by its format: <label> <string>                   *)
(* ------------------------------------------------------------------ *)
\* the positions of a line that hold no whitespace
Inked(l) == {p \in 1..Len(l) : ~isspace(l[p])}

MinOf(S) == CHOOSE x \in S : \A y \in S : x <= y

\* the string of a line: the run of non-blank bytes that follows the label
StringOf(l) ==
    LET rest == {p \in Inked(l) : p > MinOf(Inked(l))}
        from == MinOf(rest)
        to == CHOOSE q \in rest : q >= from /\ (\A r \in from..q : r \in rest) /\ (q + 1) \notin rest
        tok == SubSeq(l, from, to) IN
    IF tok = EpsAscii THEN <<>> ELSE tok

LabelOf(l) == l[MinOf(Inked(l))] - 48

\* "blank", "comment", "malformed" (no 0/1 label, or no string), "outside" (a
\* byte of the string is not a symbol), "disagree", "agree"
KindOf(l) ==
    IF Inked(l) = {} THEN "blank"
    ELSE IF l[MinOf(Inked(l))] = 35 THEN "comment"
    ELSE IF l[MinOf(Inked(l))] \notin {48, 49} THEN "malformed"
    ELSE IF {p \in Inked(l) : p > MinOf(Inked(l))} = {} THEN "malformed"
    ELSE IF \E i \in 1..Len(StringOf(l)) : \A x \in 1..ref.k : ref.alphabet[x] /= StringOf(l)[i]
    THEN "outside"
    ELSE IF run_dfa(ref, StringOf(l)) /= run_dfa(usr, StringOf(l)) THEN "disagree"
    ELSE "agree"

TestsOf == cmp_args.tests.lines

Offending12 == {i \in 1..Len(TestsOf) : KindOf(TestsOf[i]) \in {"malformed", "outside", "disagree"}}

RECURSIVE WarnedUpTo(_)
WarnedUpTo(n) ==
    IF n = 0 THEN <<>>
    ELSE WarnedUpTo(n - 1)
         \o (IF KindOf(TestsOf[n]) = "agree" /\ LabelOf(TestsOf[n]) /= run_dfa(ref, StringOf(TestsOf[n]))
             THEN <<n>> ELSE <<>>)

TestsRunUpTo(n) == Cardinality({i \in 1..n : KindOf(TestsOf[i]) \in {"agree", "disagree"}})

LoopVerdict ==
    cmp_pc = "exit" /\ cmp_err \in {"PASS", "FAIL", "label must be 0 or 1", "missing string token",
                                    "string contains symbol not in alphabet"}

\* C12: the test lines are taken in file order and the first offending line
\* decides: exit 2 at the first line on which the two DFAs disagree, exit 1 at
\* the first malformed line or string with a byte outside the alphabet, exit 0
\* with PASS iff no line offends; no line after the deciding one is read; a
\* label that differs from the reference's result is only warned about.
C12_FirstOffenderDecides ==
    /\ cmp_pc = "loop" =>
          /\ \A i \in Offending12 : i > line_no
          /\ total = TestsRunUpTo(line_no)
          /\ warnings = WarnedUpTo(line_no)
    /\ LoopVerdict =>
          /\ cmp_exit \in {0, 1, 2}
          /\ (cmp_exit = 0) = (Offending12 = {})
          /\ (cmp_exit = 0) = (cmp_err = "PASS")
          /\ cmp_exit = 0 => line_no = Len(TestsOf)
          /\ cmp_exit /= 0 => line_no = MinOf(Offending12)
          /\ cmp_exit = 2 => KindOf(TestsOf[line_no]) = "disagree"
          /\ cmp_exit = 1 => KindOf(TestsOf[line_no]) \in {"malformed", "outside"}
          /\ total = TestsRunUpTo(line_no)
          /\ warnings = WarnedUpTo(IF cmp_exit = 0 THEN line_no ELSE line_no - 1)

C12_Witness ==
    /\ cmp_pc = "exit" /\ cmp_exit = 2
    /\ line_no >= 2 /\ line_no < Len(TestsOf)
    /\ warnings /= <<>>

\* written by the compiler, and given as both the reference and the user DFA
SelfCompare == cmp_args.argc = 4 /\ cmp_args.ref = cmp_args.usr /\ cmp_args.ref.by = "compiler"

DfaReadFailed ==
    cmp_pc = "exit" /\ cmp_exit = 1
    /\ cmp_err \notin {"usage", "cannot open tests file", "label must be 0 or 1",
                       "missing string token", "string contains symbol not in alphabet"}

\* C13 as stated: the comparator run with one compiled DFA file as both
\* reference and user DFA exits 0 with PASS, whatever the tests file.
C13_Original == (SelfCompare /\ cmp_pc = "exit") => cmp_exit = 0

\* C13: the comparator run with one compiled DFA file as both reference and
\* user DFA reads the file without error and never reports a mismatch (exit
\* 2); it exits 0 with PASS iff the tests file can be opened and holds no
\* malformed line and no string with a byte outside the alphabet, and exits 1
\* otherwise.
C13_SelfCompare ==
    SelfCompare =>
        /\ ~DfaReadFailed
        /\ cmp_pc = "loop" => same_alphabet(ref, usr) /\ ref = usr
        /\ cmp_pc = "exit" =>
              /\ cmp_exit \in {0, 1}
              /\ (cmp_exit = 0) = (cmp_args.tests.ok /\ Offending12 = {})

C13_Witness ==
    /\ SelfCompare /\ cmp_pc = "exit" /\ cmp_exit = 0
    /\ total >= 2 /\ warnings /= <<>>

(* ------------------------------------------------------------------ *)
(* dfa2table.c: the converter of a user's transition list.              *)
(* A line is a sequence of bytes; positions are 1-based and Len + 1 is  *)
(* the terminating NUL.                                                 *)
(* ------------------------------------------------------------------ *)
MAX_STATES == 4096

\* ( ) { } , - > :
TblPunct == {40, 41, 123, 125, 44, 45, 62, 58}

\* validate_alphabet: the message of the die() it reaches, or ""
validate_alphabet(alph) ==
    IF Len(alph) <= 0 \/ Len(alph) > MAX_ALPHABET THEN "bad alphabet_string length"
    ELSE LET bad == {i \in 1..Len(alph) :
                        \/ alph[i] < 32
                        \/ alph[i] \in TblPunct
                        \/ \E j \in 1..(i - 1) : alph[j] = alph[i]} IN
         IF bad = {} THEN ""
         ELSE LET i == MinOf(bad) IN
              IF alph[i] < 32 THEN "alphabet has non-printable byte"
              ELSE IF alph[i] \in TblPunct THEN "alphabet contains forbidden punctuation"
              ELSE "alphabet has duplicate symbol"

\* alph_index of dfa2table.c, 0-based, -1 when c is no symbol
tbl_alph_index(al, c) ==
    IF \E i \in 1..Len(al) : al[i] = c
    THEN MinOf({i \in 1..Len(al) : al[i] = c}) - 1
    ELSE -1

RECURSIVE strip_trailing(_, _)
strip_trailing(l, S) == IF l /= <<>> /\ Last(l) \in S THEN strip_trailing(Front(l), S) ELSE l

\* trim: leading and trailing whitespace removed
trim(l) == strip_trailing(SubSeq(l, skip_space(l, 1), Len(l)), {9, 10, 11, 12, 13, 32})

\* remove_trailing_punct: trailing , } ) removed
remove_trailing_punct(l) == strip_trailing(l, {44, 125, 41})

\* strncmp(line, pre, Len(pre)) == 0
starts_with(l, pre) == Len(l) >= Len(pre) /\ SubSeq(l, 1, Len(pre)) = pre

isdigit(c) == c \in 48..57

\* the digit loops of lines 229 and 256: the value, and the position after the
\* last digit read; the loop stops once v > 1000000
RECURSIVE scan_digits(_, _, _)
scan_digits(l, p, v) ==
    IF p <= Len(l) /\ isdigit(l[p])
    THEN LET v2 == v * 10 + (l[p] - 48) IN
         IF v2 > 1000000 THEN [v |-> v2, p |-> p + 1] ELSE scan_digits(l, p + 1, v2)
    ELSE [v |-> v, p |-> p]

\* parse_q_state: 'q', then digits only, value at most 1000000
parse_q_state(tok) ==
    IF Len(tok) >= 2 /\ tok[1] = 113 /\ \A i \in 2..Len(tok) : isdigit(tok[i])
    THEN LET r == scan_digits(tok, 2, 0) IN
         IF r.v > 1000000 THEN [ok |-> FALSE, q |-> -1] ELSE [ok |-> TRUE, q |-> r.v]
    ELSE [ok |-> FALSE, q |-> -1]

\* the first position >= p that holds byte c, or Len + 1
RECURSIVE find_byte(_, _, _)
find_byte(l, p, c) == IF p <= Len(l) /\ l[p] /= c THEN find_byte(l, p + 1, c) ELSE p

\* strstr(p, "->"): the position of the '-', or 0
RECURSIVE find_arrow(_, _)
find_arrow(l, p) ==
    IF p + 1 > Len(l) THEN 0
    ELSE IF l[p] = 45 /\ l[p + 1] = 62 THEN p
    ELSE find_arrow(l, p + 1)

\* the tokens strtok_r(buf, " \t") returns one after the other
RECURSIVE strtok_all(_, _, _)
strtok_all(buf, p, cur) ==
    IF p > Len(buf) THEN (IF cur = <<>> THEN <<>> ELSE <<cur>>)
    ELSE IF buf[p] \in {32, 9}
    THEN (IF cur = <<>> THEN <<>> ELSE <<cur>>) \o strtok_all(buf, p + 1, <<>>)
    ELSE strtok_all(buf, p + 1, Append(cur, buf[p]))

StateTooLarge == "state index too large"

\* ensure_state_capacity: q may index the arrays
in_capacity(q) == q >= 0 /\ q < MAX_STATES

imax(x, y) == IF x > y THEN x ELSE y

KwStartColon == {<<83, 116, 97, 114, 116, 58>>, <<83, 84, 65, 82, 84, 58>>}

KwAcceptColon == {<<65, 99, 99, 101, 112, 116, 58>>, <<65, 67, 67, 69, 80, 84, 58>>}

\* lines 151-170: st is [start_q, accepting, acc_seen_any, max_q, trans]
start_line(l, st) ==
    LET p == skip_space(l, 7)
        e == skip_token(l, p)
        tok == remove_trailing_punct(SubSeq(l, p, e - 1))
        r == parse_q_state(tok) IN
    IF ~r.ok THEN [err |-> "Start line must be: Start: q<number>", st |-> st]
    ELSE IF ~in_capacity(r.q) THEN [err |-> StateTooLarge, st |-> st]
    ELSE [err |-> "", st |-> [st EXCEPT !.start_q = r.q, !.max_q = imax(@, r.q)]]

\* lines 191-201: the tokens of an Accept line, one after the other
RECURSIVE accept_tokens(_, _, _)
accept_tokens(toks, i, st) ==
    IF i > Len(toks) THEN [err |-> "", st |-> st]
    ELSE LET r == parse_q_state(remove_trailing_punct(toks[i])) IN
         IF ~r.ok THEN accept_tokens(toks, i + 1, st)
         ELSE IF ~in_capacity(r.q) THEN [err |-> StateTooLarge, st |-> st]
         ELSE accept_tokens(toks, i + 1,
                  [st EXCEPT !.max_q = imax(@, r.q),
                             !.accepting = [x \in (DOMAIN @) \cup {r.q} |-> IF x = r.q THEN 1 ELSE @[x]]])

\* lines 181-187: the text after the colon with { } , turned into spaces
accept_buf(l) == [i \in 1..(Len(l) - 7) |-> IF l[i + 7] \in {123, 125, 44} THEN 32 ELSE l[i + 7]]

\* lines 173-203
accept_line(l, st) ==
    accept_tokens(strtok_all(accept_buf(l), 1, <<>>), 1, [st EXCEPT !.acc_seen_any = TRUE])

\* the cell of trans at state s and symbol index ai (0-based), -1 if unwritten
trans_at(tr, s, ai) == IF <<s, ai>> \in DOMAIN tr THEN tr[<<s, ai>>] ELSE -1

\* lines 207-269: "skip" for a line without '('
transition_line(al, l, st) ==
    LET p0 == find_byte(l, 1, 40) IN
    IF p0 > Len(l) THEN [err |-> "skip", st |-> st]
    ELSE LET p1 == skip_space(l, p0 + 1) IN
    IF ~(p1 <= Len(l) /\ l[p1] = 113) THEN [err |-> "bad transition (missing q)", st |-> st]
    ELSE IF ~(p1 + 1 <= Len(l) /\ isdigit(l[p1 + 1])) THEN [err |-> "bad from-state", st |-> st]
    ELSE LET f == scan_digits(l, p1 + 1, 0)
             pc1 == find_byte(l, f.p, 44) IN
    IF pc1 > Len(l) THEN [err |-> "bad transition (missing comma)", st |-> st]
    ELSE LET p2 == skip_space(l, pc1 + 1) IN
    IF p2 > Len(l) THEN [err |-> "missing symbol", st |-> st]
    ELSE LET sym == l[p2]
             ai == tbl_alph_index(al, sym) IN
    IF ai < 0 THEN [err |-> "symbol not in alphabet", st |-> st]
    ELSE LET ar == find_arrow(l, p2 + 1) IN
    IF ar = 0 THEN [err |-> "missing ->", st |-> st]
    ELSE LET p3 == skip_space(l, ar + 2) IN
    IF ~(p3 <= Len(l) /\ l[p3] = 113) THEN [err |-> "bad to-state (missing q)", st |-> st]
    ELSE IF ~(p3 + 1 <= Len(l) /\ isdigit(l[p3 + 1])) THEN [err |-> "bad to-state digits", st |-> st]
    ELSE LET t == scan_digits(l, p3 + 1, 0) IN
    IF ~in_capacity(f.v) \/ ~in_capacity(t.v) THEN [err |-> StateTooLarge, st |-> st]
    ELSE LET mq == imax(imax(st.max_q, f.v), t.v)
             old == trans_at(st.trans, f.v, ai) IN
    IF old /= -1 /\ old /= t.v
    THEN [err |-> "nondeterministic transition", st |-> [st EXCEPT !.max_q = mq]]
    ELSE [err |-> "",
          st |-> [st EXCEPT !.max_q = mq,
                            !.trans = [c \in (DOMAIN @) \cup {<<f.v, ai>>} |->
                                          IF c = <<f.v, ai>> THEN t.v ELSE @[c]]]]

\* lines 146-269: one line of the user's file, as fgets returned it
user_line(al, raw, st) ==
    LET l == trim(raw) IN
    IF l = <<>> \/ l[1] = 35 THEN [err |-> "skip", st |-> st]
    ELSE IF \E kw \in KwStartColon : starts_with(l, kw) THEN start_line(l, st)
    ELSE IF \E kw \in KwAcceptColon : starts_with(l, kw) THEN accept_line(l, st)
    ELSE transition_line(al, l, st)

tbl_die(msg) == tbl_pc' = "exit" /\ tbl_exit' = 1 /\ tbl_err' = msg

\* the process is ended by a signal
tbl_killed == tbl_pc' = "exit" /\ tbl_exit' = 139 /\ tbl_err' = "killed"

compilerVars == <<pc, inVars, frontVars, nfaVars, dfa, minVars, outVars, exit_code, err, stepVars>>

\* lines 117-142: the argc test, validate_alphabet, fopen, the two arrays
TblStart ==
    /\ tbl_pc = "main"
    /\ IF tbl_args.argc /= 4 THEN tbl_die("usage") /\ UNCHANGED tbl_A
       ELSE IF validate_alphabet(tbl_args.alph) /= ""
       THEN tbl_die(validate_alphabet(tbl_args.alph)) /\ UNCHANGED tbl_A
       ELSE /\ tbl_A' = tbl_args.alph
            /\ IF ~tbl_args.spec.ok THEN tbl_die("cannot open user_spec.txt")
               ELSE tbl_pc' = "loop" /\ UNCHANGED <<tbl_exit, tbl_err>>
    /\ UNCHANGED <<tbl_args, tbl_start_q, tbl_accepting, tbl_acc_seen_any, tbl_max_q, tbl_trans,
                   tbl_line_no, tbl_dead, tbl_out_n, tbl_out>>
    /\ UNCHANGED <<compilerVars, cmpVars>>

\* the line has a token for strtok_r to return
HasAcceptToken(raw) ==
    LET l == trim(raw) IN
    /\ l /= <<>> /\ l[1] /= 35
    /\ ~\E kw \in KwStartColon : starts_with(l, kw)
    /\ \E kw \in KwAcceptColon : starts_with(l, kw)
    /\ strtok_all(accept_buf(l), 1, <<>>) /= <<>>

\* one iteration of while(fgets(...)), lines 144-270. strtok_r is called
\* without a declaration in scope under the -std=c11 of the file's COMPILE
\* line: the pointer it returns may come back cut to an int, and the first use
\* of a token then ends the process.
TblLine ==
    /\ tbl_pc = "loop"
    /\ tbl_line_no < Len(tbl_args.spec.lines)
    /\ tbl_line_no' = tbl_line_no + 1
    /\ LET raw == fgets(tbl_args.spec.lines[tbl_line_no + 1])
           st == [start_q |-> tbl_start_q, accepting |-> tbl_accepting,
                  acc_seen_any |-> tbl_acc_seen_any, max_q |-> tbl_max_q, trans |-> tbl_trans]
           r == user_line(tbl_A, raw, st) IN
       \/ /\ tbl_start_q' = r.st.start_q
          /\ tbl_accepting' = r.st.accepting
          /\ tbl_acc_seen_any' = r.st.acc_seen_any
          /\ tbl_max_q' = r.st.max_q
          /\ tbl_trans' = r.st.trans
          /\ IF r.err \in {"", "skip"} THEN UNCHANGED <<tbl_pc, tbl_exit, tbl_err>>
             ELSE tbl_die(r.err)
       \/ /\ HasAcceptToken(raw)
          /\ tbl_acc_seen_any' = TRUE
          /\ tbl_killed
          /\ UNCHANGED <<tbl_start_q, tbl_accepting, tbl_max_q, tbl_trans>>
    /\ UNCHANGED <<tbl_args, tbl_A, tbl_dead, tbl_out_n, tbl_out>>
    /\ UNCHANGED <<compilerVars, cmpVars>>

\* line 281-286
tbl_need_dead(tr, n_states, k) ==
    \E s \in 0..(n_states - 1) : \E ai \in 0..(k - 1) : trans_at(tr, s, ai) = -1

\* lines 293-305: accepting[dead] = 0, the row of dead, the missing cells
complete_accepting(acc, dd) == [x \in (DOMAIN acc) \cup {dd} |-> IF x = dd THEN 0 ELSE acc[x]]

complete_trans(tr, n_states, k, dd) ==
    [c \in ((0..(n_states - 1)) \cup {dd}) \X (0..(k - 1)) |->
        IF c[1] = dd THEN dd
        ELSE IF trans_at(tr, c[1], c[2]) = -1 THEN dd
        ELSE tr[c]]

\* lines 272-315: end of file, the dead state. With max_q = 4095 dead is 4096:
\* lines 293 and 295 then write past the end of both arrays, and the process
\* either goes on with what it wrote or is ended.
TblComplete ==
    /\ tbl_pc = "loop"
    /\ tbl_line_no = Len(tbl_args.spec.lines)
    /\ IF tbl_start_q < 0
       THEN tbl_die("missing Start line") /\ UNCHANGED <<tbl_accepting, tbl_trans, tbl_dead, tbl_out_n>>
       ELSE IF ~tbl_acc_seen_any
       THEN tbl_die("missing Accept line") /\ UNCHANGED <<tbl_accepting, tbl_trans, tbl_dead, tbl_out_n>>
       ELSE LET n_states == tbl_max_q + 1
                k == Len(tbl_A)
                nd == tbl_need_dead(tbl_trans, n_states, k) IN
            /\ tbl_out_n' = n_states + (IF nd THEN 1 ELSE 0)
            /\ tbl_dead' = (IF nd THEN n_states ELSE -1)
            /\ IF ~nd
               THEN /\ UNCHANGED <<tbl_accepting, tbl_trans>>
                    /\ tbl_pc' = "write" /\ UNCHANGED <<tbl_exit, tbl_err>>
               ELSE \/ /\ tbl_accepting' = complete_accepting(tbl_accepting, n_states)
                       /\ tbl_trans' = complete_trans(tbl_trans, n_states, k, n_states)
                       /\ tbl_pc' = "write" /\ UNCHANGED <<tbl_exit, tbl_err>>
                    \/ /\ n_states >= MAX_STATES
                       /\ tbl_killed
                       /\ UNCHANGED <<tbl_accepting, tbl_trans>>
    /\ UNCHANGED <<tbl_args, tbl_A, tbl_start_q, tbl_acc_seen_any, tbl_max_q, tbl_line_no, tbl_out>>
    /\ UNCHANGED <<compilerVars, cmpVars>>

\* accepting[s], 0 where nothing was written since calloc
accepting_at(acc, s) == IF s \in DOMAIN acc THEN acc[s] ELSE 0

\* lines 317-346: what the converter prints
tbl_table(al, start, acc, tr, n) ==
    [k |-> Len(al), symbols |-> al, states |-> n, start |-> start,
     accept |-> AscendingSeq({s \in 0..(n - 1) : accepting_at(acc, s) /= 0}),
     rows |-> [s \in 1..n |-> [x \in 1..Len(al) |-> trans_at(tr, s - 1, x - 1)]],
     end |-> TRUE]

TblWrite ==
    /\ tbl_pc = "write"
    /\ IF ~tbl_args.out_ok THEN tbl_die("cannot open output file") /\ UNCHANGED tbl_out
       ELSE /\ tbl_out' = tbl_table(tbl_A, tbl_start_q, tbl_accepting, tbl_trans, tbl_out_n)
            /\ tbl_pc' = "exit" /\ tbl_exit' = 0 /\ UNCHANGED tbl_err
    /\ UNCHANGED <<tbl_args, tbl_A, tbl_start_q, tbl_accepting, tbl_acc_seen_any, tbl_max_q, tbl_trans,
                   tbl_line_no, tbl_dead, tbl_out_n>>
    /\ UNCHANGED <<compilerVars, cmpVars>>

(* ------------------------------------------------------------------ *)
(* Inputs of the converter                                             *)
(* ------------------------------------------------------------------ *)
\* a, ab, and three strings validate_alphabet refuses: empty, a:, aa
TblAlphabets == {<<97>>, <<97, 98>>, <<>>, <<97, 58>>, <<97, 97>>}

\* the lines of a user's file:
\*   Start: q0
\*   START: q1
\*   Start: q4096
\*   Start: x
\*   Accept: {q0, q1}
\*   Accept: {}
\*   ACCEPT: q4095
\*   Accept: q4096)
\*   (q0, a) -> q1
\*   (q1,a)->q0
\*   (q0, a) -> q0
\*   (q0, b) -> q0
\*   (q1, b) -> q1
\*   (q4095, a) -> q0
\*   (q0, a) -> q4096
\*   (q0, c) -> q1
\*   (q0 a) -> q1
\*   # note
\*   (an empty line)
TblLines ==
    {
      <<83, 116, 97, 114, 116, 58, 32, 113, 48>>,
      <<83, 84, 65, 82, 84, 58, 32, 113, 49>>,
      <<83, 116, 97, 114, 116, 58, 32, 113, 52, 48, 57, 54>>,
      <<83, 116, 97, 114, 116, 58, 32, 120>>,
      <<65, 99, 99, 101, 112, 116, 58, 32, 123, 113, 48, 44, 32, 113, 49, 125>>,
      <<65, 99, 99, 101, 112, 116, 58, 32, 123, 125>>,
      <<65, 67, 67, 69, 80, 84, 58, 32, 113, 52, 48, 57, 53>>,
      <<65, 99, 99, 101, 112, 116, 58, 32, 113, 52, 48, 57, 54, 41>>,
      <<40, 113, 48, 44, 32, 97, 41, 32, 45, 62, 32, 113, 49>>,
      <<40, 113, 49, 44, 97, 41, 45, 62, 113, 48>>,
      <<40, 113, 48, 44, 32, 97, 41, 32, 45, 62, 32, 113, 48>>,
      <<40, 113, 48, 44, 32, 98, 41, 32, 45, 62, 32, 113, 48>>,
      <<40, 113, 49, 44, 32, 98, 41, 32, 45, 62, 32, 113, 49>>,
      <<40, 113, 52, 48, 57, 53, 44, 32, 97, 41, 32, 45, 62, 32, 113, 48>>,
      <<40, 113, 48, 44, 32, 97, 41, 32, 45, 62, 32, 113, 52, 48, 57, 54>>,
      <<40, 113, 48, 44, 32, 99, 41, 32, 45, 62, 32, 113, 49>>,
      <<40, 113, 48, 32, 97, 41, 32, 45, 62, 32, 113, 49>>,
      <<35, 32, 110, 111, 116, 101>>,
      <<>> }

TblFile(ok, ls) == [ok |-> ok, lines |-> ls]

TblInputs ==
    {[argc |-> 3, alph |-> <<97>>, spec |-> TblFile(TRUE, <<>>), out_ok |-> TRUE],
     [argc |-> 4, alph |-> <<97>>, spec |-> TblFile(FALSE, <<>>), out_ok |-> TRUE]}
    \cup {[argc |-> 4, alph |-> al, spec |-> TblFile(TRUE, <<>>), out_ok |-> TRUE] : al \in TblAlphabets}
    \cup {[argc |-> 4, alph |-> al, spec |-> TblFile(TRUE, ls), out_ok |-> ok] :
             al \in {<<97>>, <<97, 98>>}, ls \in SeqsUpTo(TblLines, MaxSpecLines), ok \in BOOLEAN}

InitTbl ==
    /\ argc = 0 /\ infile = [ok |-> FALSE, lines |-> <<>>]
    /\ CompilerAt("idle")
    /\ CmpIdle
    /\ tbl_args \in TblInputs
    /\ tbl_pc = "main"
    /\ tbl_A = <<>> /\ tbl_start_q = -1
    /\ tbl_accepting = <<>> /\ tbl_acc_seen_any = FALSE
    /\ tbl_max_q = -1 /\ tbl_trans = <<>>
    /\ tbl_line_no = 0 /\ tbl_dead = -1 /\ tbl_out_n = 0
    /\ tbl_out = NoOut
    /\ tbl_exit = -1 /\ tbl_err = ""

NextTbl ==
    \/ TblStart
    \/ TblLine
    \/ TblComplete
    \/ TblWrite

SpecTbl == InitTbl /\ [][NextTbl]_vars

\* The indices the converter has written since the two arrays were allocated
\* (line 132, lines 138-139): accepting[q] and the rows of trans.
accepting_written == DOMAIN tbl_accepting

trans_rows_written == {c[1] : c \in DOMAIN tbl_trans}

\* C21: in the converter, for every input whose state names pass
\* ensure_state_capacity, every index written into accepting and every row
\* written into trans is a state index below MAX_STATES, the index of the dead
\* state appended for a missing transition included. The code breaks it: with
\* a state named q4095 and a missing transition, dead is 4096 and lines 293
\* and 295 write accepting[4096] and row 4096 of trans.
C21_IndicesInRange ==
    tbl_err # StateTooLarge =>
        /\ \A q \in accepting_written : q >= 0 /\ q < MAX_STATES
        /\ \A q \in trans_rows_written : q >= 0 /\ q < MAX_STATES

====
